---------------------------- MODULE Spec2Model ----------------------------
(***************************************************************************)
(* Snow Tracker: the SNOTEL period-of-record analytics engine              *)
(* (computeAnalytics and its helpers) and the station-selection loader     *)
(* (selectStation, loadHydrograph, loadPORAnalytics, the hydroData effect) *)
(* of src/src/App.tsx.                                                     *)
(*                                                                         *)
(* Conventions.                                                            *)
(*  - A nullable value (number | null, string | null) is a sequence of     *)
(*    length at most one: None is null, Some(v) is the value v.            *)
(*  - A date string 'YYYY-MM-DD' is the record [y, m, d]; the string order *)
(*    (localeCompare, >=) is the order of DateKey.                         *)
(*  - SWE values are whole inches.  A JavaScript number that need not be   *)
(*    whole (a slope, an R^2) is an exact fraction <<num, den>> in lowest  *)
(*    terms with den > 0: double rounding error is not modelled.           *)
(***************************************************************************)
EXTENDS Integers, Sequences, FiniteSets, TLC

None == <<>>

Some(v) == <<v>>

IsSome(o) == o # <<>>

Val(o) == o[1]

(***************************************************************************)
(* Sequence helpers (Array.prototype.map / reduce / find).                 *)
(***************************************************************************)
\* the array [i \in 1..n |-> e] with its elements computed once
AsSeq(f) == <<>> \o f

\* the sum of s[lo..hi], left to right, by halves
RECURSIVE SumRange(_, _, _)
SumRange(s, lo, hi) ==
    IF lo > hi THEN 0
    ELSE IF lo = hi THEN s[lo]
    ELSE SumRange(s, lo, (lo + hi) \div 2) + SumRange(s, ((lo + hi) \div 2) + 1, hi)

\* xs.reduce((a, b) => a + b, 0)
SumSeq(s) == SumRange(s, 1, Len(s))

\* index of the first element of s in the set of indices ok, 0 when none
FirstIdx(ok) == IF ok = {} THEN 0 ELSE CHOOSE i \in ok : \A j \in ok : i <= j

LastIdx(ok) == IF ok = {} THEN 0 ELSE CHOOSE i \in ok : \A j \in ok : j <= i

\* a set of integers in ascending order
SetToSortedSeq(S) ==
    AsSeq([k \in 1..Cardinality(S) |->
             CHOOSE x \in S : Cardinality({y \in S : y < x}) = k - 1])

(***************************************************************************)
(* Exact fractions.                                                        *)
(***************************************************************************)
Abs(x) == IF x < 0 THEN -x ELSE x

RECURSIVE Gcd(_, _)
Gcd(a, b) == IF b = 0 THEN a ELSE Gcd(b, a % b)

Rat(n, d) ==
    LET g == Gcd(Abs(n), Abs(d))
        s == IF d < 0 THEN -1 ELSE 1
    IN  <<(s * n) \div g, (s * d) \div g>>

RInt(n) == <<n, 1>>

RAdd(p, q) ==
    LET g == Gcd(p[2], q[2])
    IN  Rat(p[1] * (q[2] \div g) + q[1] * (p[2] \div g), (p[2] \div g) * q[2])

RNeg(p) == <<-p[1], p[2]>>

RSub(p, q) == RAdd(p, RNeg(q))

RMul(p, q) ==
    LET g1 == Gcd(Abs(p[1]), q[2])
        g2 == Gcd(Abs(q[1]), p[2])
    IN  Rat((p[1] \div g1) * (q[1] \div g2), (p[2] \div g2) * (q[2] \div g1))

\* p / q for q # 0
RDiv(p, q) == RMul(p, Rat(q[2], q[1]))

RLt(p, q) == p[1] * q[2] < q[1] * p[2]

RECURSIVE RSumRange(_, _, _)
RSumRange(s, lo, hi) ==
    IF lo > hi THEN RInt(0)
    ELSE IF lo = hi THEN s[lo]
    ELSE RAdd(RSumRange(s, lo, (lo + hi) \div 2),
              RSumRange(s, ((lo + hi) \div 2) + 1, hi))

RSum(s) == RSumRange(s, 1, Len(s))

\* Math.round(n / d) for d > 0: the nearest integer, a half rounding up
RoundDiv(n, d) == (2 * n + d) \div (2 * d)

(***************************************************************************)
(* Calendar: Date parsing and arithmetic as the helpers use them.          *)
(***************************************************************************)
IsLeap(y) == (y % 4 = 0 /\ y % 100 # 0) \/ y % 400 = 0

DaysBeforeMonth(y, m) ==
    LET cum == <<0, 31, 59, 90, 120, 151, 181, 212, 243, 273, 304, 334>>
    IN  cum[m] + (IF m > 2 /\ IsLeap(y) THEN 1 ELSE 0)

\* days from 0000-12-31 to the date (proleptic Gregorian): Date.getTime() / 86400000
\* up to a constant
DayNumber(date) ==
    LET p == date.y - 1
    IN  365 * p + (p \div 4) - (p \div 100) + (p \div 400)
        + DaysBeforeMonth(date.y, date.m) + date.d

\* order of the 'YYYY-MM-DD' strings
DateKey(date) == date.y * 10000 + date.m * 100 + date.d

\* Date.getMonth(): 0 = January
GetMonth(date) == date.m - 1

\* The time zone of the runtime: std is its standard offset from UTC in
\* hours (east positive) and dst its daylight-saving rule, "none", "north"
\* (as in the United States: clocks one hour ahead from the second Sunday of
\* March to the first Sunday of November) or "south" (as in New South Wales:
\* from the first Sunday of October to the first Sunday of April).  The
\* Sundays are those of 2012 in every year.
Zone(std, dst) == [std |-> std, dst |-> dst]

UtcZone == Zone(0, "none")

\* daylight saving is in force at local midnight of the date
DstActive(tz, date) ==
    LET k == date.m * 100 + date.d
    IN  CASE tz.dst = "north" -> 312 <= k /\ k <= 1104
          [] tz.dst = "south" -> k >= 1008 \/ k <= 401
          [] OTHER            -> FALSE

\* the offset from UTC, in hours, at local midnight of the date
OffsetAt(tz, date) == tz.std + (IF DstActive(tz, date) THEN 1 ELSE 0)

\* new Date(y, m, d).getTime() in hours: local midnight of the date
LocalMidnightHoursIn(tz, date) == 24 * DayNumber(date) - OffsetAt(tz, date)

\* the same in a zone without offset
LocalMidnightHours(date) == LocalMidnightHoursIn(UtcZone, date)

\* dateToDOWY (App.tsx 139-144) in the zone tz: Math.floor of the
\* difference of two local midnights in days, plus one
dateToDOWYIn(tz, date) ==
    LET wy      == IF GetMonth(date) >= 9 THEN date.y ELSE date.y - 1
        wyStart == [y |-> wy, m |-> 10, d |-> 1]
    IN  ((LocalMidnightHoursIn(tz, date) - LocalMidnightHoursIn(tz, wyStart)) \div 24) + 1

\* dateToDOWY as computeAnalytics is analysed: in a zone without daylight
\* saving, where the two midnights are whole days apart
dateToDOWY(date) == dateToDOWYIn(UtcZone, date)

\* the day before the date
PrevDay(date) ==
    IF date.d > 1 THEN [date EXCEPT !.d = date.d - 1]
    ELSE IF date.m > 1
    THEN [y |-> date.y, m |-> date.m - 1,
          d |-> DaysBeforeMonth(date.y, date.m) - DaysBeforeMonth(date.y, date.m - 1)]
    ELSE [y |-> date.y - 1, m |-> 12, d |-> 31]

\* the local calendar date of new Date('YYYY-MM-DD'), which is midnight UTC
\* of the date: the day before in a zone behind UTC
LocalDateOfUtcMidnight(tz, date) ==
    IF OffsetAt(tz, date) < 0 THEN PrevDay(date) ELSE date

\* dateToDOWY (DataDashboard.tsx 60-64) in the zone tz: the date string is
\* parsed as midnight UTC, its month and year are read in local time, and
\* 1 October is local midnight
dashboardDateToDOWY(tz, date) ==
    LET local == LocalDateOfUtcMidnight(tz, date)
        oct1  == [y |-> IF GetMonth(local) >= 9 THEN local.y ELSE local.y - 1,
                  m |-> 10, d |-> 1]
    IN  ((24 * DayNumber(date) - LocalMidnightHoursIn(tz, oct1)) \div 24) + 1

\* a water year taken to begin in November
WYFromNovember(date) == IF GetMonth(date) >= 10 THEN date.y + 1 ELSE date.y

\* dateToWY (App.tsx 177-180)
dateToWY(date) == IF GetMonth(date) >= 9 THEN date.y + 1 ELSE date.y

\* waterYearDates().wyYear (App.tsx 167-175), now the local calendar date
waterYearDates(now) == IF GetMonth(now) >= 9 THEN now.y ELSE now.y - 1

(***************************************************************************)
(* linearRegression (App.tsx 183-199), on whole-number xs and ys.          *)
(***************************************************************************)
RSq(p) == RMul(p, p)

\* the horizontal line through the mean of ys
MeanLine(xs, ys) ==
    [slope |-> RInt(0),
     intercept |-> IF Len(ys) = 0 THEN RInt(0) ELSE Rat(SumSeq(ys), Len(ys)),
     r2 |-> RInt(0)]

\* the least-squares line through the origin
FitThroughOrigin(xs, ys) ==
    LET n     == Len(xs)
        sumXX == SumSeq(AsSeq([i \in 1..n |-> xs[i] * xs[i]]))
        sumXY == SumSeq(AsSeq([i \in 1..n |-> xs[i] * ys[i]]))
    IN  [slope |-> IF sumXX = 0 THEN RInt(0) ELSE Rat(sumXY, sumXX),
         intercept |-> RInt(0),
         r2 |-> RInt(1)]

linearRegression(xs, ys) ==
    LET n     == Len(xs)
        sumX  == SumSeq(xs)
        sumY  == SumSeq(ys)
        sumXX == SumSeq(AsSeq([i \in 1..n |-> xs[i] * xs[i]]))
        sumXY == SumSeq(AsSeq([i \in 1..n |-> xs[i] * ys[i]]))
        denom == n * sumXX - sumX * sumX
    IN  IF n < 2 THEN [slope |-> RInt(0), intercept |-> RInt(0), r2 |-> RInt(0)]
        ELSE IF denom = 0
        THEN [slope |-> RInt(0), intercept |-> Rat(sumY, n), r2 |-> RInt(0)]
        ELSE
          LET slope     == Rat(n * sumXY - sumX * sumY, denom)
              intercept == RDiv(RSub(RInt(sumY), RMul(slope, RInt(sumX))), RInt(n))
              meanY     == Rat(sumY, n)
              ssRes     == RSum(AsSeq([i \in 1..n |->
                              RSq(RSub(RInt(ys[i]),
                                       RAdd(RMul(slope, RInt(xs[i])), intercept)))]))
              ssTot     == RSum(AsSeq([i \in 1..n |-> RSq(RSub(RInt(ys[i]), meanY))]))
              r2        == IF RLt(RInt(0), ssTot)
                           THEN RSub(RInt(1), RDiv(ssRes, ssTot))
                           ELSE RInt(0)
          IN  [slope |-> slope, intercept |-> intercept, r2 |-> r2]

\* linearRegression (DataDashboard.tsx 38-53): the total sum of squares is
\* syy - sy * sy / n
dashboardLinearRegression(xs, ys) ==
    LET n   == Len(xs)
        sx  == SumSeq(xs)
        sy  == SumSeq(ys)
        sxx == SumSeq(AsSeq([i \in 1..n |-> xs[i] * xs[i]]))
        sxy == SumSeq(AsSeq([i \in 1..n |-> xs[i] * ys[i]]))
        syy == SumSeq(AsSeq([i \in 1..n |-> ys[i] * ys[i]]))
        denom == n * sxx - sx * sx
    IN  IF n < 2 THEN [slope |-> RInt(0), intercept |-> RInt(0), r2 |-> RInt(0)]
        ELSE IF denom = 0
        THEN [slope |-> RInt(0), intercept |-> Rat(sy, n), r2 |-> RInt(0)]
        ELSE
          LET slope     == Rat(n * sxy - sx * sy, denom)
              intercept == RDiv(RSub(RInt(sy), RMul(slope, RInt(sx))), RInt(n))
              ssTot     == RSub(RInt(syy), Rat(sy * sy, n))
              ssRes     == RSum(AsSeq([i \in 1..n |->
                              RSq(RSub(RInt(ys[i]),
                                       RAdd(RMul(slope, RInt(xs[i])), intercept)))]))
              r2        == IF RLt(RInt(0), ssTot)
                           THEN RSub(RInt(1), RDiv(ssRes, ssTot))
                           ELSE RInt(0)
          IN  [slope |-> slope, intercept |-> intercept, r2 |-> r2]

(***************************************************************************)
(* Array.prototype.sort with a comparator on a key: s is a sequence of     *)
(* <<key, item>> pairs; the result is ordered by key, equal keys keeping   *)
(* their order (the sort is stable).                                       *)
(***************************************************************************)
SortByKey(s) ==
    LET n    == Len(s)
        \* the place of s[i]: after every smaller key and every earlier equal key
        place == AsSeq([i \in 1..n |->
                    Cardinality({j \in 1..n : s[j][1] < s[i][1]
                                              \/ (s[j][1] = s[i][1] /\ j < i)}) + 1])
    IN  AsSeq([k \in 1..n |-> s[CHOOSE i \in 1..n : place[i] = k]])

Items(s) == AsSeq([i \in 1..Len(s) |-> s[i][2]])

(***************************************************************************)
(* Program constants of computeAnalytics.                                  *)
(***************************************************************************)
\* days.length > 60
MinDays == 60

\* d.swe > 1: measurable snow
SnowThreshold == 1

\* Math.abs(dowy - todayDOWY) <= 3
DowyWindow == 3

\* currentWYHydro.length > 5
MinHydro == 5

\* r2 > 0.15 (in hundredths)
R2Pct == 15

\* waterYears.length > 10
MinTrendYears == 10

\* onsetData.length > 5
MinTimingYears == 5

\* REGIONS (App.tsx 119-125), in insertion order
\* a mapping in which Nevada belongs to two regions
OverlappingRegions ==
    << [name |-> "Sierra Nevada", states |-> {"CA", "NV"}],
       [name |-> "Rockies",       states |-> {"CO", "WY", "MT", "ID", "UT"}],
       [name |-> "Cascades",      states |-> {"WA", "OR"}],
       [name |-> "Northeast",     states |-> {"VT", "NH", "ME", "NY"}],
       [name |-> "Southwest",     states |-> {"AZ", "NM", "NV"}] >>

REGIONS ==
    << [name |-> "Sierra Nevada", states |-> {"CA", "NV"}],
       [name |-> "Rockies",       states |-> {"CO", "WY", "MT", "ID", "UT"}],
       [name |-> "Cascades",      states |-> {"WA", "OR"}],
       [name |-> "Northeast",     states |-> {"VT", "NH", "ME", "NY"}],
       [name |-> "Southwest",     states |-> {"AZ", "NM"}] >>

(***************************************************************************)
(* computeAnalytics (App.tsx 204-369), step by step.                       *)
(***************************************************************************)
\* the keys of byWY (rows with d.swe === null are skipped by the grouping
\* loop); Object.entries lists integer keys in ascending order
WYKeys(porData) == {dateToWY(porData[i].date) : i \in {j \in 1..Len(porData) : IsSome(porData[j].swe)}}

\* every row of the year, a null row like one with a value
RowsOfWY(porData, wy) ==
    SelectSeq(porData, LAMBDA d : dateToWY(d.date) = wy)

\* byWY[wy]: the year's valid observations in input order
DaysOfWY(porData, wy) ==
    SelectSeq(porData, LAMBDA d : IsSome(d.swe) /\ dateToWY(d.date) = wy)

\* the days left in the order of the input, for comparison with the sort
InputOrder(days) == days

\* [...days].sort((a, b) => a.date.localeCompare(b.date))
SortByDate(days) ==
    Items(SortByKey(AsSeq([i \in 1..Len(days) |-> <<DateKey(days[i].date), days[i]>>])))

\* a loop body with >=, so that the last occurrence of the maximum wins
PeakStepLastWins(peak, d) ==
    IF IsSome(d.swe) /\ Val(d.swe) >= peak.peakSWE
    THEN [peakSWE |-> Val(d.swe), peakDate |-> d.date]
    ELSE peak

\* the peak loop: strict >, so the first occurrence of the maximum wins
\* one step of the loop body on the running [peakSWE, peakDate]
PeakStep(peak, d) ==
    IF IsSome(d.swe) /\ Val(d.swe) > peak.peakSWE
    THEN [peakSWE |-> Val(d.swe), peakDate |-> d.date]
    ELSE peak

\* the loop over sorted[lo..hi] from the running peak, left to right.  The
\* range is halved and the peak after the first half is bound as a value
\* before the second half runs, so that the evaluation stays shallow.
RECURSIVE PeakScan(_, _, _, _)
PeakScan(sorted, lo, hi, peak) ==
    IF lo > hi THEN peak
    ELSE IF lo = hi THEN PeakStep(peak, sorted[lo])
    ELSE CHOOSE r \in {PeakScan(sorted, ((lo + hi) \div 2) + 1, hi, left) :
                         left \in {PeakScan(sorted, lo, (lo + hi) \div 2, peak)}} : TRUE

\* snow from the threshold itself upwards
AtOrAboveThreshold(d) == IsSome(d.swe) /\ Val(d.swe) >= SnowThreshold

\* d.swe !== null && d.swe > 1
AboveThreshold(d) == IsSome(d.swe) /\ Val(d.swe) > SnowThreshold

\* a season counted with both its first and its last day
SeasonDaysInclusive(onsetDate, meltOutDate) ==
    IF IsSome(onsetDate) /\ IsSome(meltOutDate)
    THEN DayNumber(Val(meltOutDate)) - DayNumber(Val(onsetDate)) + 1
    ELSE 0

\* seasonDays (App.tsx 238-240): both strings are parsed as midnight UTC, so
\* the difference is a whole number of days and Math.round leaves it alone
SeasonDays(onsetDate, meltOutDate) ==
    IF IsSome(onsetDate) /\ IsSome(meltOutDate)
    THEN DayNumber(Val(meltOutDate)) - DayNumber(Val(onsetDate))
    ELSE 0

\* the days after the peak date, the peak day itself left out
StrictlyAfterPeak(sorted, peak) ==
    SelectSeq(sorted, LAMBDA d : DateKey(d.date) > DateKey(peak.peakDate))

\* sorted.filter(d => d.date >= peakDate)
AfterPeak(sorted, peak) ==
    SelectSeq(sorted, LAMBDA d : DateKey(d.date) >= DateKey(peak.peakDate))

\* the .map callback of waterYears (App.tsx 222-242), from the sorted days and
\* the peak the loop found
SummaryOf(wy, sorted, peak) ==
    LET onsetIdx  == FirstIdx({i \in 1..Len(sorted) : AboveThreshold(sorted[i])})
        onsetDate == IF onsetIdx = 0 THEN None ELSE Some(sorted[onsetIdx].date)
        afterPeak == AfterPeak(sorted, peak)
        lastIdx   == LastIdx({i \in 1..Len(afterPeak) : AboveThreshold(afterPeak[i])})
        meltOutDate == IF lastIdx = 0 THEN None ELSE Some(afterPeak[lastIdx].date)
        seasonDays  == SeasonDays(onsetDate, meltOutDate)
    IN  [wy |-> wy, peakSWE |-> peak.peakSWE, peakDate |-> peak.peakDate,
         onsetDate |-> onsetDate, meltOutDate |-> meltOutDate,
         seasonDays |-> seasonDays]

\* let peakSWE = 0, peakDate = sorted[0].date, then the loop
PeakOfSorted(sorted) ==
    PeakScan(sorted, 1, Len(sorted), [peakSWE |-> 0, peakDate |-> sorted[1].date])

SummaryOfSorted(wy, sorted) == SummaryOf(wy, sorted, PeakOfSorted(sorted))

Summary(wy, days) == SummaryOfSorted(wy, SortByDate(days))

\* the threshold read as "at least 60 valid observations"
AtLeastMinDays(days) == Len(days) >= MinDays

\* no threshold: every water year with a valid observation
AnyDays(days) == Len(days) > 0

\* .filter(([_, days]) => days.length > 60)
EnoughDays(days) == Len(days) > MinDays

\* waterYears (App.tsx 220-243): filter, map, sort by wy
WaterYears(porData) ==
    LET keys == SetToSortedSeq({wy \in WYKeys(porData) : EnoughDays(DaysOfWY(porData, wy))})
    IN  AsSeq([i \in 1..Len(keys) |-> Summary(keys[i], DaysOfWY(porData, keys[i]))])


\* the first observation fewer than 3 days from today's DOWY
DayInsideWindow(porData, wy, todayDOWY) ==
    LET days == DaysOfWY(porData, wy)
        idx  == FirstIdx({i \in 1..Len(days) :
                    Abs(dateToDOWY(days[i].date) - todayDOWY) < DowyWindow})
    IN  IF idx # 0 THEN days[idx].swe ELSE None

\* historicalAtDOWY (App.tsx 273-283): for every key of byWY, the first
\* observation (in input order) within the window of today's DOWY
DayAtDOWY(porData, wy, todayDOWY) ==
    LET days == DaysOfWY(porData, wy)
        idx  == FirstIdx({i \in 1..Len(days) :
                    Abs(dateToDOWY(days[i].date) - todayDOWY) <= DowyWindow})
    IN  IF idx # 0 THEN days[idx].swe ELSE None

\* one value pushed for every key (in ascending order) whose dayAtDOWY has a
\* value, then historicalAtDOWY.sort((a, b) => a - b)
HistoricalAtDOWY(porData, todayDOWY) ==
    LET hits == SetToSortedSeq({wy \in WYKeys(porData) :
                                  IsSome(DayAtDOWY(porData, wy, todayDOWY))})
    IN  Items(SortByKey(AsSeq([k \in 1..Len(hits) |->
          <<Val(DayAtDOWY(porData, hits[k], todayDOWY)),
            Val(DayAtDOWY(porData, hits[k], todayDOWY))>>])))

\* a missing current value read as the snow threshold
MissingAsThreshold(station) ==
    IF IsSome(station.swe) THEN Val(station.swe) ELSE SnowThreshold

\* const currentSWE = station.swe ?? 0
CurrentSWE(station) == IF IsSome(station.swe) THEN Val(station.swe) ELSE 0

\* a rank that also counts the pooled values equal to the current one
RankAtOrBelow(pool, currentSWE) ==
    Cardinality({i \in 1..Len(pool) : pool[i] <= currentSWE}) + 1

\* historicalAtDOWY.filter(v => v < currentSWE).length + 1
CurrentRank(pool, currentSWE) ==
    Cardinality({i \in 1..Len(pool) : pool[i] < currentSWE}) + 1

\* a hydrograph of at least 5 points
AtLeastMinHydro(currentWYHydro) == Len(currentWYHydro) >= MinHydro

\* currentWYHydro.length > 5
EnoughHydro(currentWYHydro) == Len(currentWYHydro) > MinHydro

\* projectedPeak (App.tsx 292-305); the result is a fraction of tenths,
\* Math.round(ratio * peakMedian * 10) / 10
ProjectedPeak(currentWYHydro) ==
    IF EnoughHydro(currentWYHydro)
    THEN LET latestHydro  == currentWYHydro[Len(currentWYHydro)]
             latestMedian == latestHydro.median
             latestSWE    == latestHydro.swe
         IN  IF /\ IsSome(latestMedian) /\ Val(latestMedian) # 0
                /\ IsSome(latestSWE) /\ Val(latestSWE) # 0
                /\ Val(latestMedian) > 0
             THEN LET meds == {Val(currentWYHydro[i].median) :
                                 i \in {j \in 1..Len(currentWYHydro) :
                                          IsSome(currentWYHydro[j].median)}}
                      peakMedian == CHOOSE m \in meds : \A k \in meds : k <= m
                  IN  IF peakMedian > Val(latestMedian)
                      THEN Some(Rat(RoundDiv(Val(latestSWE) * peakMedian * 10,
                                             Val(latestMedian)), 10))
                      ELSE None
             ELSE None
    ELSE None

\* monthlyClim (App.tsx 308-321): avg, min, max in tenths of an inch
MonthlyClim(porData) ==
    LET order == <<9, 10, 11, 0, 1, 2, 3, 4, 5>>
        Bucket(mo) == {i \in 1..Len(porData) :
                         IsSome(porData[i].swe) /\ GetMonth(porData[i].date) = mo}
        Clim(mo) ==
          LET b    == Bucket(mo)
              vals == {Val(porData[i].swe) : i \in b}
              inMo == SelectSeq(porData, LAMBDA d : IsSome(d.swe) /\ GetMonth(d.date) = mo)
              sum  == SumSeq(AsSeq([k \in 1..Len(inMo) |-> Val(inMo[k].swe)]))
          IN  IF b = {} THEN [month |-> mo, avg |-> 0, min |-> 0, max |-> 0]
              ELSE [month |-> mo,
                    avg   |-> RoundDiv(10 * sum, Cardinality(b)),
                    min   |-> 10 * (CHOOSE v \in vals : \A w \in vals : v <= w),
                    max   |-> 10 * (CHOOSE v \in vals : \A w \in vals : w <= v)]
    IN  AsSeq([k \in 1..Len(order) |-> Clim(order[k])])

\* the first three stations near the target in the order of the list
FirstThreeNearby(station, allStations) ==
    LET near == SelectSeq(allStations, LAMBDA s :
                   /\ s.id # station.id
                   /\ Abs(s.lat - station.lat) < 10
                   /\ Abs(s.lon - station.lon) < 10
                   /\ IsSome(s.pctMedian))
        top  == SubSeq(near, 1, IF Len(near) < 3 THEN Len(near) ELSE 3)
    IN  AsSeq([i \in 1..Len(top) |-> [name |-> top[i].name, pctMedian |-> top[i].pctMedian]])

\* nearbyComparison (App.tsx 324-332); lat and lon are in tenths of a degree
NearbyComparison(station, allStations) ==
    LET near   == SelectSeq(allStations, LAMBDA s :
                     /\ s.id # station.id
                     /\ Abs(s.lat - station.lat) < 10
                     /\ Abs(s.lon - station.lon) < 10
                     /\ IsSome(s.pctMedian))
        keyed  == AsSeq([i \in 1..Len(near) |->
                     <<Abs(near[i].lat - station.lat) + Abs(near[i].lon - station.lon),
                       near[i]>>])
        sorted == Items(SortByKey(keyed))
        top    == SubSeq(sorted, 1, IF Len(sorted) < 3 THEN Len(sorted) ELSE 3)
    IN  AsSeq([i \in 1..Len(top) |-> [name |-> top[i].name, pctMedian |-> top[i].pctMedian]])

\* the region loop (App.tsx 335-346): the first entry listing the state wins
\* the loop over Object.entries(regions) with its break, and the average
RegionIn(regions, station, allStations) ==
    LET hit == FirstIdx({i \in 1..Len(regions) : station.state \in regions[i].states})
    IN  IF hit = 0 THEN [regionName |-> "Region", regionAvgPct |-> 0]
        ELSE LET members == SelectSeq(allStations, LAMBDA s :
                                s.state \in regions[hit].states /\ IsSome(s.pctMedian))
                 total   == SumSeq(AsSeq([i \in 1..Len(members) |-> Val(members[i].pctMedian)]))
             IN  [regionName   |-> regions[hit].name,
                  regionAvgPct |-> IF Len(members) > 0
                                   THEN RoundDiv(total, Len(members)) ELSE 0]

Region(station, allStations) == RegionIn(REGIONS, station, allStations)

\* a timing trend fitted from 5 years on
TimingRegFromMin(xs, ys) ==
    IF Len(xs) >= MinTimingYears THEN linearRegression(xs, ys)
    ELSE [slope |-> RInt(0), r2 |-> RInt(0)]

\* a timing trend: the regression when more than 5 years carry the metric
TimingReg(xs, ys) ==
    IF Len(xs) > MinTimingYears THEN linearRegression(xs, ys)
    ELSE [slope |-> RInt(0), r2 |-> RInt(0)]

\* significance by the quality of the fit alone
SignificantFit(peakReg, waterYears) == RLt(Rat(R2Pct, 100), peakReg.r2)

\* peakReg.r2 > 0.15 && waterYears.length > 10
PeakTrendSignificant(peakReg, waterYears) ==
    RLt(Rat(R2Pct, 100), peakReg.r2) /\ Len(waterYears) > MinTrendYears

\* the current water year's summary (App.tsx 268-270)
CurrentOnsetDOWY(waterYears, clock) ==
    LET wyYear == waterYearDates(clock.local)
        idx    == FirstIdx({i \in 1..Len(waterYears) : waterYears[i].wy = wyYear})
    IN  IF idx # 0 /\ IsSome(waterYears[idx].onsetDate)
        THEN Some(dateToDOWY(Val(waterYears[idx].onsetDate)))
        ELSE None

\* the body of computeAnalytics after waterYears is built
AnalyticsOf(waterYears, porData, station, allStations, currentWYHydro, clock) ==
    LET nWY        == Len(waterYears)
        peakXs     == AsSeq([i \in 1..nWY |-> waterYears[i].wy])
        peakYs     == AsSeq([i \in 1..nWY |-> waterYears[i].peakSWE])
        peakReg    == linearRegression(peakXs, peakYs)
        span       == IF nWY > 1 THEN waterYears[nWY].wy - waterYears[1].wy ELSE 1
        avgPeak    == IF nWY > 0 THEN Rat(SumSeq(peakYs), nWY) ELSE RInt(1)
        onsetData  == SelectSeq(waterYears, LAMBDA w : IsSome(w.onsetDate))
        onsetXs    == AsSeq([i \in 1..Len(onsetData) |-> onsetData[i].wy])
        onsetYs    == AsSeq([i \in 1..Len(onsetData) |-> dateToDOWY(Val(onsetData[i].onsetDate))])
        meltData   == SelectSeq(waterYears, LAMBDA w : IsSome(w.meltOutDate))
        meltXs     == AsSeq([i \in 1..Len(meltData) |-> meltData[i].wy])
        meltYs     == AsSeq([i \in 1..Len(meltData) |-> dateToDOWY(Val(meltData[i].meltOutDate))])
        seasons    == SelectSeq(waterYears, LAMBDA w : w.seasonDays > 0)
        seasonXs   == AsSeq([i \in 1..Len(seasons) |-> seasons[i].wy])
        seasonYs   == AsSeq([i \in 1..Len(seasons) |-> seasons[i].seasonDays])
        todayDOWY  == dateToDOWY(clock.utc)
        currentSWE == CurrentSWE(station)
        pool       == HistoricalAtDOWY(porData, todayDOWY)
        recent10   == SubSeq(waterYears, IF nWY > 10 THEN nWY - 9 ELSE 1, nWY)
        medianPeak == IF nWY > 0
                      THEN Items(SortByKey(AsSeq([i \in 1..nWY |-> <<peakYs[i], peakYs[i]>>])))
                             [(nWY \div 2) + 1]
                      ELSE 0
        region     == Region(station, allStations)
    IN  [ waterYears           |-> waterYears,
          peakTrendSlope       |-> RMul(peakReg.slope, RInt(10)),
          peakTrendPct         |-> IF RLt(RInt(0), avgPeak)
                                   THEN RMul(RDiv(RMul(peakReg.slope, RInt(span)), avgPeak),
                                             RInt(100))
                                   ELSE RInt(0),
          peakTrendSignificant |-> PeakTrendSignificant(peakReg, waterYears),
          avgOnsetDOWY         |-> IF Len(onsetData) > 0
                                   THEN RoundDiv(SumSeq(onsetYs), Len(onsetData)) ELSE 0,
          currentOnsetDOWY     |-> CurrentOnsetDOWY(waterYears, clock),
          onsetTrendDays       |-> RMul(TimingReg(onsetXs, onsetYs).slope, RInt(10)),
          avgMeltOutDOWY       |-> IF Len(meltData) > 0
                                   THEN RoundDiv(SumSeq(meltYs), Len(meltData)) ELSE 0,
          meltOutTrendDays     |-> RMul(TimingReg(meltXs, meltYs).slope, RInt(10)),
          avgSeasonLength      |-> IF Len(seasons) > 0
                                   THEN RoundDiv(SumSeq(seasonYs), Len(seasons)) ELSE 0,
          seasonLengthChange   |-> RMul(TimingReg(seasonXs, seasonYs).slope, RInt(span)),
          currentRank          |-> CurrentRank(pool, currentSWE),
          totalYears           |-> Len(pool),
          belowMedianCount10yr |-> Cardinality({i \in 1..Len(recent10) :
                                       recent10[i].peakSWE < medianPeak}),
          projectedPeak        |-> ProjectedPeak(currentWYHydro),
          monthlyClim          |-> MonthlyClim(porData),
          nearbyComparison     |-> NearbyComparison(station, allStations),
          regionName           |-> region.regionName,
          regionAvgPct         |-> region.regionAvgPct ]

\* computeAnalytics.  clock is the wall clock the function reads through
\* new Date(): [local |-> the local calendar date, utc |-> the UTC date]
computeAnalytics(porData, station, allStations, currentWYHydro, clock) ==
    AnalyticsOf(WaterYears(porData), porData, station, allStations, currentWYHydro, clock)

(***************************************************************************)
(* The station list loaded once at start-up (snotelStations) and the wall  *)
(* clocks at which the program is observed.  Latitude and longitude are in *)
(* tenths of a degree.                                                     *)
(***************************************************************************)
StationA ==
    [id |-> "A1", name |-> "Alpha", state |-> "CO", lat |-> 400, lon |-> -1050,
     swe |-> Some(4), pctMedian |-> Some(90)]

StationB ==
    [id |-> "B2", name |-> "Bravo", state |-> "CA", lat |-> 390, lon |-> -1200,
     swe |-> Some(7), pctMedian |-> Some(110)]

StationC ==
    [id |-> "C3", name |-> "Charlie", state |-> "CO", lat |-> 405, lon |-> -1055,
     swe |-> None, pctMedian |-> Some(70)]

LoadedStations == <<StationA, StationB, StationC>>

Date(y, m, d) == [y |-> y, m |-> m, d |-> d]

\* a wall clock: the local calendar date and the UTC date of the same instant
Clock(local, utc) == [local |-> local, utc |-> utc]

\* 25 October 2011; 23 October 2012; the evening of 30 September 2013 local
\* time, already 1 October in UTC
Clocks ==
    << Clock(Date(2011, 10, 25), Date(2011, 10, 25)),
       Clock(Date(2012, 10, 23), Date(2012, 10, 23)),
       Clock(Date(2013, 9, 30), Date(2013, 10, 1)) >>

(***************************************************************************)
(* Period-of-record series, written as runs of consecutive days with one   *)
(* value: [wy, dowy, len, swe, step] is len days of water year wy starting *)
(* at day dowy of the water year and moving step days (1 or -1) a row.     *)
(***************************************************************************)
\* the calendar date of day dowy of water year wy (1 = 1 October of wy - 1)
DateOfDOWY(wy, dowy) ==
    LET lens == <<31, 30, 31, 31, IF IsLeap(wy) THEN 29 ELSE 28, 31, 30, 31, 30, 31, 31, 30>>
        Before(k) == SumRange(lens, 1, k - 1)
        k == CHOOSE j \in 1..12 : Before(j) < dowy /\ dowy <= Before(j) + lens[j]
    IN  [y |-> IF k <= 3 THEN wy - 1 ELSE wy,
         m |-> IF k <= 3 THEN k + 9 ELSE k - 3,
         d |-> dowy - Before(k)]

RunRows(r) ==
    AsSeq([i \in 1..r.len |->
             [date |-> DateOfDOWY(r.wy, r.dowy + r.step * (i - 1)), swe |-> r.swe]])

RECURSIVE ExpandRange(_, _, _)
ExpandRange(runs, lo, hi) ==
    IF lo > hi THEN <<>>
    ELSE IF lo = hi THEN RunRows(runs[lo])
    ELSE ExpandRange(runs, lo, (lo + hi) \div 2)
           \o ExpandRange(runs, ((lo + hi) \div 2) + 1, hi)

\* the PORDay[] array the runs stand for
Expand(runs) == ExpandRange(runs, 1, Len(runs))

Run(wy, dowy, len, swe, step) ==
    [wy |-> wy, dowy |-> dowy, len |-> len, swe |-> swe, step |-> step]

(***************************************************************************)
(* State.  The first group is the state of the App component that the      *)
(* station loader touches; the second is a caller of computeAnalytics with *)
(* its arguments, the wall clock and the records returned so far.          *)
(***************************************************************************)
VARIABLES
    selectedStation,    \* useState<SnotelStation | null>
    hydroData,          \* useState<HydroPoint[]>
    hydroLoading,       \* useState(false)
    analytics,          \* useState<StationAnalytics | null>
    analyticsLoading,   \* useState(false)
    porCache,           \* porCacheRef.current: cache key -> PORDay[] | undefined
    porLoads,           \* loadPORAnalytics calls that have not finished
    hydroLoads,         \* loadHydrograph calls that have not finished
    nSelects,           \* selectStation calls so far
    porRuns,            \* argument porData of computeAnalytics, as runs
    station,            \* argument station
    allStations,        \* argument allStations
    currentWYHydro,     \* argument currentWYHydro
    now,                \* the wall clock new Date() reads
    results,            \* the records returned, each with the clock of its call
    pruned,             \* the record returned for the sufficient years alone
    validOnly,          \* the record returned for the rows with a value alone
    tz,                 \* the time zone of the runtime
    dateStr,            \* argument dateStr of the date helpers
    wyOut,              \* what dateToWY returned
    dowyOut,            \* what dateToDOWY of App.tsx returned
    dashDowyOut,        \* what dateToDOWY of DataDashboard.tsx returned
    regXs,              \* argument xs of linearRegression
    regYs,              \* argument ys of linearRegression
    regOut,             \* what linearRegression of App.tsx returned
    dashRegOut          \* what linearRegression of DataDashboard.tsx returned

uiVars == <<selectedStation, hydroData, hydroLoading, analytics, analyticsLoading,
            porCache, porLoads, hydroLoads, nSelects>>

caVars == <<porRuns, station, allStations, currentWYHydro, results, pruned, validOnly>>

fnVars == <<tz, dateStr, wyOut, dowyOut, dashDowyOut, regXs, regYs, regOut, dashRegOut>>

vars == <<uiVars, caVars, fnVars, now>>

(***************************************************************************)
(* Bounds of the model.                                                    *)
(***************************************************************************)
\* the largest SWE value of a generated single-year series
MaxSwe == 3

\* the longest generated period of record, in water years
MaxYears == 12

\* calls of computeAnalytics on one set of arguments
MaxCalls == 2

\* selectStation calls in one run of the loader
MaxSelects == 2

(***************************************************************************)
(* Arguments for computeAnalytics.                                         *)
(***************************************************************************)
SweValues == {None} \cup {Some(v) : v \in 0..MaxSwe}

\* lengths of the three runs of a single-year series: 59, 60, 61, 61 and 62 days
ShapeLens ==
    { <<20, 20, MinDays - 41>>, <<20, 20, MinDays - 40>>, <<20, 20, MinDays - 39>>,
      <<30, 1, MinDays - 30>>, <<30, 2, MinDays - 30>> }

LastClock == Clocks[Len(Clocks)]

Args(runs, st, hydro, clock) ==
    [runs |-> runs, station |-> st, allStations |-> LoadedStations,
     hydro |-> hydro, now |-> clock]

\* one water year (2012) in three runs, in date order
ShapeArgs ==
    { Args(<< Run(2012, 20, L[1], a, 1),
              Run(2012, 20 + L[1], L[2], b, 1),
              Run(2012, 20 + L[1] + L[2], L[3], c, 1) >>,
           StationA, <<>>, LastClock) :
        L \in ShapeLens, a \in SweValues, b \in SweValues, c \in SweValues }

\* the same year delivered latest day first
ReversedArgs ==
    { Args(<< Run(2012, 20 + MinDays, MinDays - 39, c, -1),
              Run(2012, 39 + 20, 20, b, -1),
              Run(2012, 39, 20, a, -1) >>,
           StationA, <<>>, LastClock) :
        a \in SweValues, b \in SweValues, c \in SweValues }

Patterns == {"up", "flat", "zigzag", "drift", "down"}

\* the peak of year k of a pattern: exactly linear, constant, cyclic, cyclic
\* with a slow rise (R^2 about 0.21 over 11 years, 0.148 over 12), falling
PeakOf(pat, k) ==
    CASE pat = "up"     -> k + 1
      [] pat = "flat"   -> 3
      [] pat = "zigzag" -> 2 + (k % 3)
      [] pat = "drift"  -> 2 + 2 * (k % 3) + (k \div 4)
      [] pat = "down"   -> 40 - 2 * k

\* n water years ending with 2012, one run of 61 days a year
YearRuns(n, pat) ==
    AsSeq([k \in 1..n |->
             Run(2012 - n + k, 20 + (k % 3), MinDays + 1, Some(PeakOf(pat, k)), 1)])

\* ten days of the water year before the first
SparseRun(n) == Run(2012 - n, 22, 10, Some(1), 1)

YearCounts == {3, MinTrendYears, MinTrendYears + 1, MaxYears}

RecordArgs ==
    { Args(YearRuns(n, pat) \o extra, StationA, <<>>, Clocks[1]) :
        n \in YearCounts, pat \in Patterns,
        extra \in {<<>>, <<SparseRun(MaxYears)>>} }

\* three years and a sparse one, for each current reading of the station
RankArgs ==
    { Args(YearRuns(3, "zigzag") \o extra, [StationA EXCEPT !.swe = v], <<>>, Clocks[c]) :
        extra \in {<<>>, <<SparseRun(3)>>},
        v \in {None, Some(0), Some(2), Some(3), Some(9)},
        c \in {1, 2} }

\* a hydrograph of len points whose medians peak at 4 before the last point
Hydro(len, swe, median) ==
    IF len = 0 THEN <<>>
    ELSE AsSeq([i \in 1..len |->
                  IF i < len THEN [swe |-> Some(1), median |-> Some(IF i = 2 THEN 4 ELSE 1)]
                  ELSE [swe |-> swe, median |-> median]])

HydroArgs ==
    { Args(<<Run(2012, 20, MinDays + 1, Some(2), 1)>>, StationA, Hydro(len, swe, med), Clocks[2]) :
        len \in {0, MinHydro, MinHydro + 1, MinHydro + 2},
        swe \in {None, Some(0), Some(1), Some(3)},
        med \in {None, Some(-1), Some(0), Some(1), Some(2), Some(4)} }

\* a water year of 80 valid days around a gap of null rows, and null rows
\* alone in the year before, at the days of the year the rank pools
GapArgs ==
    { Args(<< Run(2012, 20, 40, Some(a), 1),
              Run(2012, 60, 5, None, 1),
              Run(2012, 65, 40, Some(b), 1),
              Run(2011, 20, 10, None, 1) >>,
           StationA, <<>>, Clocks[2]) :
        a \in 0..MaxSwe, b \in 0..MaxSwe }

\* no water year with a summary: an empty series, ten valid days around
\* today's day of the water year, ten null rows; with an empty or a loaded
\* station list and an empty or a usable hydrograph
EmptyArgs ==
    { [Args(runs, [StationA EXCEPT !.swe = v], hydro, Clocks[1]) EXCEPT !.allStations = sts] :
        runs  \in {<<>>, <<Run(2012, 22, 10, Some(1), 1)>>, <<Run(2012, 22, 10, None, 1)>>},
        v     \in {None, Some(4)},
        sts   \in {<<>>, LoadedStations},
        hydro \in {<<>>, Hydro(MinHydro + 1, Some(3), Some(2))} }

\* one water year of 61 days in three runs whose values may lie below zero,
\* as a drifting sensor reports them
SignedArgs ==
    { Args(<< Run(2012, 20, 20, Some(a), 1),
              Run(2012, 40, 20, Some(b), 1),
              Run(2012, 60, MinDays - 39, Some(c), 1) >>,
           StationA, <<>>, LastClock) :
        a \in {-1, 0, 2}, b \in {-1, 0, 2}, c \in {-1, 0, 2} }

\* year k of a record for the timing trends: "snow" is 61 + k days at 2
\* inches, "bare" the same days at 1 inch (no onset, no melt-out), "oneDay"
\* a single day at 3 inches among 60 days without snow (onset and melt-out
\* on that day)
TimingYear(wy, k, kind) ==
    CASE kind = "snow"   -> << Run(wy, 20 + (k % 3), MinDays + 1 + k, Some(2), 1) >>
      [] kind = "bare"   -> << Run(wy, 20 + (k % 3), MinDays + 1 + k, Some(1), 1) >>
      [] kind = "oneDay" -> << Run(wy, 20, 30, Some(0), 1),
                               Run(wy, 50, 1, Some(3), 1),
                               Run(wy, 51, 30, Some(0), 1) >>

RECURSIVE TimingRuns(_, _, _, _)
\* years k..n, ending with water year 2012, year j of the given kind and
\* the others with snow
TimingRuns(n, k, j, kind) ==
    IF k > n THEN <<>>
    ELSE TimingYear(2012 - n + k, k, IF k = j THEN kind ELSE "snow")
           \o TimingRuns(n, k + 1, j, kind)

\* 5, 6 and 7 years, one of them with snow, bare or with one day of snow
TimingArgs ==
    { Args(TimingRuns(n, 1, j, kind), StationA, <<>>, Clocks[1]) :
        n \in MinTimingYears..(MinTimingYears + 2), j \in {1, 3},
        kind \in {"snow", "bare", "oneDay"} }

\* three water years of 61 days at one value each, below zero, zero or
\* above, for a station without a current reading
MissingCurrentArgs ==
    { Args(<< Run(2010, 20, MinDays + 1, Some(a), 1),
              Run(2011, 20, MinDays + 1, Some(b), 1),
              Run(2012, 20, MinDays + 1, Some(c), 1) >>,
           [StationA EXCEPT !.swe = None], <<>>, Clocks[1]) :
        a \in {-1, 0, 2}, b \in {-1, 0, 2}, c \in {-1, 0, 2} }

\* a water year of 61 days, ten days of the next year that begin at day
\* first of the water year (today is day 25: they end 4 or 3 days before it,
\* contain it, or begin 3 or 4 days after it), and a year before with null
\* rows alone around today's day
WindowArgs ==
    { Args(<< Run(2010, 20, MinDays + 1, Some(2), 1),
              Run(2011, first, 10, Some(v), 1),
              Run(2009, 22, 10, None, 1) >>,
           StationA, <<>>, Clocks[1]) :
        first \in {12, 13, 20, 28, 29}, v \in {1, 5} }

Neighbour(id, lat, lon, pct) ==
    [id |-> id, name |-> "N" \o id, state |-> "CO", lat |-> lat, lon |-> lon,
     swe |-> Some(1), pctMedian |-> pct]

\* stations around StationA (40.0, -105.0): at Manhattan distances 0.1, 0.3,
\* 0.3, 1.0 and 1.8 degrees, one exactly 1 degree north, one close by
\* without a percent of median
Neighbours ==
    << Neighbour("7", 409, -1041, Some(60)),
       Neighbour("4", 405, -1055, Some(70)),
       Neighbour("5", 410, -1050, Some(80)),
       Neighbour("2", 402, -1051, Some(95)),
       Neighbour("6", 401, -1051, None),
       Neighbour("3", 397, -1050, Some(105)),
       Neighbour("1", 401, -1050, Some(120)) >>

Reverse(seq) == AsSeq([i \in 1..Len(seq) |-> seq[Len(seq) + 1 - i]])

\* the stations of the list at the positions of the set, in list order
Pick(seq, positions) ==
    AsSeq([k \in 1..Cardinality(positions) |-> seq[SetToSortedSeq(positions)[k]]])

\* every selection of the neighbours, in both orders, with and without the
\* target in the list; no period of record
NearbyArgs ==
    { [Args(<<>>, StationA, <<>>, Clocks[1]) EXCEPT !.allStations = own \o sts] :
        sts \in UNION { {Pick(Neighbours, ps), Reverse(Pick(Neighbours, ps))} :
                          ps \in SUBSET (1..Len(Neighbours)) },
        own \in {<<>>, <<StationA>>} }

StationIn(id, state, pct) ==
    [id |-> id, name |-> "S" \o id, state |-> state, lat |-> 0, lon |-> 0,
     swe |-> Some(1), pctMedian |-> pct]

\* stations of four regions and of none, one without a percent of median
StationsByState ==
    << StationIn("1", "CA", Some(80)),
       StationIn("2", "NV", Some(100)),
       StationIn("3", "CO", Some(90)),
       StationIn("4", "UT", None),
       StationIn("5", "WA", Some(50)),
       StationIn("6", "AZ", Some(130)),
       StationIn("7", "AK", Some(70)),
       StationIn("8", "NM", Some(111)) >>

\* a station of each region and one of none, against the list in both
\* orders and against the empty list; no period of record
RegionArgs ==
    { [Args(<<>>, StationIn("0", state, Some(100)), <<>>, Clocks[1])
         EXCEPT !.allStations = sts] :
        state \in {"NV", "UT", "OR", "NY", "NM", "AK"},
        sts \in {StationsByState, Reverse(StationsByState), <<>>} }

CallArgs ==
    ShapeArgs \cup ReversedArgs \cup RecordArgs \cup RankArgs \cup HydroArgs \cup GapArgs
      \cup EmptyArgs \cup SignedArgs \cup TimingArgs \cup MissingCurrentArgs \cup WindowArgs
      \cup NearbyArgs \cup RegionArgs

(***************************************************************************)
(* Initial states.                                                         *)
(***************************************************************************)
\* the component after its first renders, the station list loaded
UIInit ==
    /\ selectedStation = None
    /\ hydroData = <<>>
    /\ hydroLoading = FALSE
    /\ analytics = None
    /\ analyticsLoading = FALSE
    /\ porCache = [s \in {} |-> <<>>]
    /\ porLoads = {}
    /\ hydroLoads = {}
    /\ nSelects = 0

\* a caller that has made no call
CAIdle ==
    /\ porRuns = <<>>
    /\ station = StationA
    /\ allStations = LoadedStations
    /\ currentWYHydro = <<>>
    /\ results = <<>>
    /\ pruned = <<>>
    /\ validOnly = <<>>

\* no helper called
FnIdle ==
    /\ tz = UtcZone
    /\ dateStr = Date(2011, 10, 1)
    /\ wyOut = None
    /\ dowyOut = None
    /\ dashDowyOut = None
    /\ regXs = <<>>
    /\ regYs = <<>>
    /\ regOut = None
    /\ dashRegOut = None

InitCA ==
    /\ UIInit
    /\ FnIdle
    /\ \E a \in CallArgs :
         /\ porRuns = a.runs
         /\ station = a.station
         /\ allStations = a.allStations
         /\ currentWYHydro = a.hydro
         /\ now = a.now
    /\ results = <<>>
    /\ pruned = <<>>
    /\ validOnly = <<>>

(***************************************************************************)
(* The caller of computeAnalytics.                                         *)
(***************************************************************************)
\* the water years of the series with too few valid days for a summary
InsufficientYears(porData) ==
    {wy \in WYKeys(porData) : Len(DaysOfWY(porData, wy)) <= MinDays}

\* the series without the rows of those years
SufficientOnly(porData) ==
    LET drop == InsufficientYears(porData)
    IN  SelectSeq(porData, LAMBDA d : dateToWY(d.date) \notin drop)

\* a call with the arguments, at the present clock
CallComputeAnalytics ==
    /\ Len(results) < MaxCalls
    /\ IF results = <<>> THEN TRUE ELSE results[Len(results)].at # now
    /\ results' = Append(results,
                    [at  |-> now,
                     out |-> computeAnalytics(Expand(porRuns), station, allStations,
                                              currentWYHydro, now)])
    /\ UNCHANGED <<uiVars, fnVars, porRuns, station, allStations, currentWYHydro, pruned,
                   validOnly, now>>

\* the same call on the series without its insufficient years, at the clock
\* of the first call
CallOnSufficientYears ==
    /\ results # <<>>
    /\ pruned = <<>>
    /\ now = results[1].at
    /\ InsufficientYears(Expand(porRuns)) # {}
    /\ pruned' = <<computeAnalytics(SufficientOnly(Expand(porRuns)), station,
                                    allStations, currentWYHydro, now)>>
    /\ UNCHANGED <<uiVars, fnVars, porRuns, station, allStations, currentWYHydro, results,
                   validOnly, now>>

\* the series without its rows whose value is null
WithoutNulls(porData) == SelectSeq(porData, LAMBDA d : IsSome(d.swe))

\* the series has a null row: one of its runs is a run of nulls
HasNull(runs) == \E i \in 1..Len(runs) : runs[i].swe = None

\* the same call on the series without its null rows, at the clock of the
\* first call
CallOnValidRows ==
    /\ results # <<>>
    /\ validOnly = <<>>
    /\ now = results[1].at
    /\ HasNull(porRuns)
    /\ validOnly' = <<computeAnalytics(WithoutNulls(Expand(porRuns)), station,
                                       allStations, currentWYHydro, now)>>
    /\ UNCHANGED <<uiVars, fnVars, porRuns, station, allStations, currentWYHydro, results,
                   pruned, now>>

\* time passes between two calls
ClockAdvance ==
    /\ results # <<>>
    /\ Len(results) < MaxCalls
    /\ results[Len(results)].at = now
    /\ \E i \in 1..(Len(Clocks) - 1) :
         /\ Clocks[i] = now
         /\ now' = Clocks[i + 1]
    /\ UNCHANGED <<uiVars, caVars, fnVars>>

NextCA == CallComputeAnalytics \/ CallOnSufficientYears \/ CallOnValidRows \/ ClockAdvance

SpecCA == InitCA /\ [][NextCA]_vars

(***************************************************************************)
(* Properties of computeAnalytics, over the records returned (SpecCA).     *)
(***************************************************************************)
\* the series passed to computeAnalytics
PorData == Expand(porRuns)

\* the water years the rows of a series fall in
YearsOf(por) == {dateToWY(por[i].date) : i \in 1..Len(por)}

\* the number of non-missing observations of water year wy in a series
ValidCount(por, wy) ==
    Cardinality({i \in 1..Len(por) : por[i].swe # None /\ dateToWY(por[i].date) = wy})

\* the summaries a returned record holds for water year wy
SummariesFor(out, wy) == {i \in 1..Len(out.waterYears) : out.waterYears[i].wy = wy}

Returned == {results[i] : i \in 1..Len(results)}

\* every water year of the series por has one summary in every record
\* returned when it has at least least valid observations, and none otherwise
SummaryIffAtLeast(por, least) ==
    \A r \in Returned :
      /\ \A i \in 1..Len(r.out.waterYears) : r.out.waterYears[i].wy \in YearsOf(por)
      /\ \A wy \in YearsOf(por) :
           Cardinality(SummariesFor(r.out, wy)) = IF ValidCount(por, wy) >= least THEN 1 ELSE 0

\* C3 as the specification states it: a water year has a summary exactly
\* when it has at least 60 valid observations (59 or fewer: none; 60 or
\* more: exactly one)
C3_SummaryIffAtLeast60 == results # <<>> => SummaryIffAtLeast(PorData, 60)

\* C3 as the code decides it: a water year has exactly one summary when it
\* has more than 60 (at least 61) valid observations and none otherwise; a
\* year of exactly 60 valid observations gets no summary
C3_SummaryIffMoreThan60 == results # <<>> => SummaryIffAtLeast(PorData, 61)

\* a record returned holds exactly one summary for a water year of exactly
\* 61 valid observations of a series por that also has missing rows
OneSummaryAt61(por) ==
    \E r \in Returned : \E wy \in YearsOf(por) :
      /\ ValidCount(por, wy) = 61
      /\ Len(por) > 61
      /\ Cardinality(SummariesFor(r.out, wy)) = 1

\* C3 witness: a call returned exactly one summary for a water year of
\* exactly 61 valid observations whose series also holds missing rows
C3_Witness == results # <<>> /\ OneSummaryAt61(PorData)

\* C4: in every summary returned, onsetDate when present is on or before
\* peakDate and meltOutDate when present is on or after peakDate
C4_OnsetPeakMeltOrder ==
    \A r \in Returned : \A i \in 1..Len(r.out.waterYears) :
      LET w == r.out.waterYears[i]
      IN  /\ w.onsetDate # None => DateKey(Val(w.onsetDate)) <= DateKey(w.peakDate)
          /\ w.meltOutDate # None => DateKey(Val(w.meltOutDate)) >= DateKey(w.peakDate)

\* C4 witness: a summary of a series delivered latest day first, with the
\* onset strictly before the peak and the melt-out strictly after it
C4_Witness ==
    \E r \in Returned : \E i \in 1..Len(r.out.waterYears) :
      LET w == r.out.waterYears[i]
      IN  /\ porRuns[1].step = -1
          /\ w.onsetDate # None /\ w.meltOutDate # None
          /\ DateKey(Val(w.onsetDate)) < DateKey(w.peakDate)
          /\ DateKey(w.peakDate) < DateKey(Val(w.meltOutDate))

\* the onset day-of-water-year of the water year that contains the local
\* date of the clock (labelled by the year it ends in), from the summaries
\* of a returned record; None without such a summary or without an onset
OnsetOfYearContaining(out, clock) ==
    LET hits == SummariesFor(out, dateToWY(clock.local))
    IN  IF hits = {} THEN None
        ELSE LET w == out.waterYears[CHOOSE i \in hits : TRUE]
             IN  IF w.onsetDate = None THEN None
                 ELSE Some(dateToDOWY(Val(w.onsetDate)))

\* C5: currentOnsetDOWY is the onset day-of-water-year of the water year
\* containing today's date, when that year has a summary with an onset, and
\* null otherwise; never that of another water year
C5_CurrentOnsetOfCurrentWY ==
    \A r \in Returned : r.out.currentOnsetDOWY = OnsetOfYearContaining(r.out, r.at)

\* the peak-value fit of the summaries has R^2 > 0.15, from the sums of the
\* water years x and peaks y: R^2 = Sxy^2 / (Sxx * Syy), and 0 when the
\* peaks are all equal
FitAbove15Pct(wys) ==
    LET n   == Len(wys)
        sx  == SumSeq(AsSeq([i \in 1..n |-> wys[i].wy - wys[1].wy]))
        sy  == SumSeq(AsSeq([i \in 1..n |-> wys[i].peakSWE]))
        sxx == SumSeq(AsSeq([i \in 1..n |-> (wys[i].wy - wys[1].wy) * (wys[i].wy - wys[1].wy)]))
        syy == SumSeq(AsSeq([i \in 1..n |-> wys[i].peakSWE * wys[i].peakSWE]))
        sxy == SumSeq(AsSeq([i \in 1..n |-> (wys[i].wy - wys[1].wy) * wys[i].peakSWE]))
        Sxx == n * sxx - sx * sx
        Syy == n * syy - sy * sy
        Sxy == n * sxy - sx * sy
    IN  n >= 2 /\ Sxx > 0 /\ Syy > 0 /\ 20 * Sxy * Sxy > 3 * Sxx * Syy

\* the peaks grow exactly linearly with the water year
PeaksExactlyLinear(wys) ==
    /\ Len(wys) >= 2
    /\ wys[2].peakSWE > wys[1].peakSWE
    /\ \A i \in 1..Len(wys) :
         (wys[i].peakSWE - wys[1].peakSWE) * (wys[2].wy - wys[1].wy)
           = (wys[2].peakSWE - wys[1].peakSWE) * (wys[i].wy - wys[1].wy)

\* C6: peakTrendSignificant is true exactly when the peak-value regression
\* has R^2 > 0.15 and there are more than 10 summaries; so it is false with
\* 10 or fewer summaries whatever the slope, and true with more than 10
\* summaries whose peaks grow exactly linearly
C6_SignificantIffFitAndYears ==
    \A r \in Returned :
      LET wys == r.out.waterYears
      IN  /\ r.out.peakTrendSignificant = (FitAbove15Pct(wys) /\ Len(wys) > 10)
          /\ Len(wys) <= 10 => ~r.out.peakTrendSignificant
          /\ Len(wys) > 10 /\ PeaksExactlyLinear(wys) => r.out.peakTrendSignificant

\* C6 witness: a record with more than 10 summaries of exactly linear peaks,
\* marked significant
C6_Witness ==
    \E r \in Returned :
      /\ Len(r.out.waterYears) > 10
      /\ PeaksExactlyLinear(r.out.waterYears)
      /\ r.out.peakTrendSignificant

\* the current value the rank is taken for: station.swe ?? 0
CurrentValue == IF station.swe = None THEN 0 ELSE Val(station.swe)

\* the rank and pool size of a returned record against the pool of the
\* series por at the clock of the call
RankMatchesPool(por) ==
    \A r \in Returned :
      LET pool  == HistoricalAtDOWY(por, dateToDOWY(r.at.utc))
          below == {i \in 1..Len(pool) : pool[i] < CurrentValue}
      IN  /\ r.out.totalYears = Len(pool)
          /\ r.out.currentRank = 1 + Cardinality(below)
          /\ 1 <= r.out.currentRank /\ r.out.currentRank <= r.out.totalYears + 1
          /\ (\A i \in 1..Len(pool) : pool[i] < CurrentValue)
               => r.out.currentRank = r.out.totalYears + 1
          /\ below = {} => r.out.currentRank = 1

\* C7: currentRank is one plus the number of pooled values strictly below
\* the current value; it lies in 1..totalYears + 1, is totalYears + 1 when
\* the current value exceeds every pooled value and 1 when none is below it
C7_RankIsOnePlusBelow == results # <<>> => RankMatchesPool(PorData)

\* C7 witness: a pool of several years, one of them equal to the current
\* value, one below and one above it
C7_Witness ==
    \E r \in Returned :
      /\ r.out.totalYears >= 3
      /\ r.out.currentRank > 1
      /\ r.out.currentRank < r.out.totalYears
      /\ station.swe = Some(3)

\* the outputs of a record that are indexed by water year or computed from
\* the summaries
YearIndexed(out) ==
    [ waterYears           |-> out.waterYears,
      peakTrendSlope       |-> out.peakTrendSlope,
      peakTrendPct         |-> out.peakTrendPct,
      peakTrendSignificant |-> out.peakTrendSignificant,
      avgOnsetDOWY         |-> out.avgOnsetDOWY,
      currentOnsetDOWY     |-> out.currentOnsetDOWY,
      onsetTrendDays       |-> out.onsetTrendDays,
      avgMeltOutDOWY       |-> out.avgMeltOutDOWY,
      meltOutTrendDays     |-> out.meltOutTrendDays,
      avgSeasonLength      |-> out.avgSeasonLength,
      seasonLengthChange   |-> out.seasonLengthChange,
      belowMedianCount10yr |-> out.belowMedianCount10yr ]

\* the pool outputs
RankOutputs(out) == [currentRank |-> out.currentRank, totalYears |-> out.totalYears]

\* C8 as claimed: the water years without a summary contribute to no
\* year-indexed output, nor to the pool behind currentRank and totalYears:
\* the series without them gives the same summaries, trends, averages, rank
\* and pool size
C8_NoContributionAtAll ==
    pruned # <<>> =>
      /\ YearIndexed(pruned[1]) = YearIndexed(results[1].out)
      /\ RankOutputs(pruned[1]) = RankOutputs(results[1].out)

\* C8 as the code has it: the water years without a summary contribute to
\* no summary, trend or average (the series without them gives the same
\* ones); they may still enter the pool behind currentRank and totalYears
C8_NoContributionToSummaries ==
    pruned # <<>> => YearIndexed(pruned[1]) = YearIndexed(results[1].out)

\* C8 witness: a series with summaries and a sparse year, whose sparse year
\* is counted in totalYears
C8_Witness ==
    /\ pruned # <<>>
    /\ results[1].out.waterYears # <<>>
    /\ results[1].out.totalYears = pruned[1].totalYears + 1

\* C9: two calls with the same arguments return identical records,
\* whatever the wall clock of each call
C9_SameArgumentsSameRecord ==
    \A r1 \in Returned : \A r2 \in Returned : r1.out = r2.out

\* C10: projectedPeak is null when the hydrograph has fewer than 6 points,
\* and null when the latest median is missing, zero or negative
C10_ProjectedPeakGuard ==
    \A r \in Returned :
      LET n == Len(currentWYHydro)
      IN  /\ n < 6 => r.out.projectedPeak = None
          /\ (n > 0 /\ (currentWYHydro[n].median = None
                         \/ (currentWYHydro[n].median # None
                              /\ Val(currentWYHydro[n].median) <= 0)))
               => r.out.projectedPeak = None

\* C10 witness: a call on a hydrograph of exactly 5 points with a positive
\* latest median below the peak median returned no projection
C10_Witness ==
    \E r \in Returned :
      /\ Len(currentWYHydro) = 5
      /\ currentWYHydro[5].median = Some(1)
      /\ currentWYHydro[5].swe = Some(3)
      /\ r.out.projectedPeak = None

\* C15: the record computed from a series with null rows is the record
\* computed from the same series without them; a null is never read as 0
C15_NullRowsHaveNoEffect ==
    validOnly # <<>> => validOnly[1] = results[1].out

\* C15 happens: a year qualified although null rows interrupt it, and the
\* call on its valid rows alone was made
C15_Witness ==
    /\ validOnly # <<>>
    /\ results[1].out.waterYears # <<>>
    /\ results[1].out.totalYears = 1

\* the fields of StationAnalytics
AnalyticsFields ==
    { "waterYears", "peakTrendSlope", "peakTrendPct", "peakTrendSignificant",
      "avgOnsetDOWY", "currentOnsetDOWY", "onsetTrendDays", "avgMeltOutDOWY",
      "meltOutTrendDays", "avgSeasonLength", "seasonLengthChange", "currentRank",
      "totalYears", "belowMedianCount10yr", "projectedPeak", "monthlyClim",
      "nearbyComparison", "regionName", "regionAvgPct" }

\* no water year of the series has more than MinDays valid observations
NoQualifyingYear(por) == \A wy \in YearsOf(por) : ValidCount(por, wy) <= MinDays

\* no summary, every trend slope 0 and the peak trend not significant
FlatTrends(out) ==
    /\ out.waterYears = <<>>
    /\ out.peakTrendSlope = RInt(0)
    /\ out.peakTrendPct = RInt(0)
    /\ out.onsetTrendDays = RInt(0)
    /\ out.meltOutTrendDays = RInt(0)
    /\ out.seasonLengthChange = RInt(0)
    /\ out.peakTrendSignificant = FALSE

\* C16 as claimed: every record is complete, and with no qualifying water
\* year the summaries are empty, the trend slopes 0, the peak trend not
\* significant, totalYears 0, currentRank 1 and projectedPeak null
C16_NeutralWithoutQualifyingYear ==
    \A r \in Returned :
      /\ DOMAIN r.out = AnalyticsFields
      /\ NoQualifyingYear(Expand(porRuns)) =>
           /\ FlatTrends(r.out)
           /\ r.out.totalYears = 0
           /\ r.out.currentRank = 1
           /\ r.out.projectedPeak = None

\* C16 as the code has it: every record is complete; with no qualifying
\* water year the summaries are empty, the trend slopes 0 and the peak trend
\* not significant; totalYears is 0 and currentRank 1 when the series has no
\* valid observation, and projectedPeak is null when the hydrograph is empty
C16_NeutralOnEmptyInputs ==
    \A r \in Returned :
      /\ DOMAIN r.out = AnalyticsFields
      /\ NoQualifyingYear(Expand(porRuns)) => FlatTrends(r.out)
      /\ ~(\E i \in 1..Len(Expand(porRuns)) : Expand(porRuns)[i].swe # None) =>
           /\ r.out.totalYears = 0
           /\ r.out.currentRank = 1
      /\ currentWYHydro = <<>> => r.out.projectedPeak = None

\* C16 happens: computeAnalytics was called with an empty series, an empty
\* station list and an empty hydrograph
C16_Witness ==
    /\ results # <<>>
    /\ porRuns = <<>>
    /\ allStations = <<>>
    /\ currentWYHydro = <<>>
    /\ FlatTrends(results[1].out)

\* the rows of water year wy of a series that carry a value
ValidRows(por, wy) ==
    {i \in 1..Len(por) : por[i].swe # None /\ dateToWY(por[i].date) = wy}

\* the largest value among the rows of the set
MaxValue(por, rows) ==
    CHOOSE v \in {Val(por[i].swe) : i \in rows} : \A i \in rows : Val(por[i].swe) <= v

\* the earliest date among the rows of the set
EarliestDate(por, rows) ==
    CHOOSE d \in {por[i].date : i \in rows} :
      \A i \in rows : DateKey(d) <= DateKey(por[i].date)

\* the latest date among the rows of the set
LatestDate(por, rows) ==
    CHOOSE d \in {por[i].date : i \in rows} :
      \A i \in rows : DateKey(por[i].date) <= DateKey(d)

\* the rows of the set with the value v
RowsAt(por, rows, v) == {i \in rows : Val(por[i].swe) = v}

\* the summary w carries max, the maximum of the rows of its year, and the
\* first date of that maximum
PeakIsFirstMaximum(por, w, rows, max) ==
    /\ w.peakSWE = max
    /\ w.peakDate = EarliestDate(por, RowsAt(por, rows, max))

\* the summaries of the records returned
SummariesReturned ==
    UNION { {r.out.waterYears[i] : i \in 1..Len(r.out.waterYears)} : r \in Returned }

PeaksAreFirstMaxima(por) ==
    \A w \in SummariesReturned :
      PeakIsFirstMaximum(por, w, ValidRows(por, w.wy), MaxValue(por, ValidRows(por, w.wy)))

PeakIsFirstMaximumAboveZero(por, w, rows, max) ==
    IF max > 0 \/ \A i \in rows : Val(por[i].swe) >= 0
    THEN PeakIsFirstMaximum(por, w, rows, max)
    ELSE /\ w.peakSWE = 0
         /\ w.peakDate = EarliestDate(por, rows)

PeaksAreFirstMaximaAboveZero(por) ==
    \A w \in SummariesReturned :
      PeakIsFirstMaximumAboveZero(por, w, ValidRows(por, w.wy),
                                  MaxValue(por, ValidRows(por, w.wy)))

RepeatedPeak(por, w, rows) ==
    /\ w.peakSWE > 0
    /\ \E i \in rows : Val(por[i].swe) = w.peakSWE /\ DateKey(por[i].date) > DateKey(w.peakDate)
    /\ \E i \in rows : Val(por[i].swe) < w.peakSWE

SomeRepeatedPeak(por) ==
    \E w \in SummariesReturned : RepeatedPeak(por, w, ValidRows(por, w.wy))

SnowFrom(por, rows, date) ==
    {i \in rows : DateKey(por[i].date) >= DateKey(date) /\ Val(por[i].swe) > SnowThreshold}

\* the melt-out date of the summary w is the date of the last row of cand,
\* or null when cand is empty
MeltOutIsLastOf(por, w, cand) ==
    w.meltOutDate = IF cand = {} THEN None ELSE Some(LatestDate(por, cand))

MeltOutsAreLastSnow(por) ==
    \A w \in SummariesReturned :
      MeltOutIsLastOf(por, w, SnowFrom(por, ValidRows(por, w.wy), w.peakDate))

MeltOutBeforeEnd(por, w, rows) ==
    /\ IsSome(w.meltOutDate)
    /\ DateKey(Val(w.meltOutDate)) > DateKey(w.peakDate)
    /\ \E i \in rows : DateKey(por[i].date) > DateKey(Val(w.meltOutDate))

SomeMeltOutBeforeEnd(por) ==
    \E w \in SummariesReturned : MeltOutBeforeEnd(por, w, ValidRows(por, w.wy))

DaysBetween(from, to) ==
    (to.y - from.y) * 365
      + Cardinality({y \in from.y..(to.y - 1) : IsLeap(y)})
      + (DaysBeforeMonth(to.y, to.m) + to.d)
      - (DaysBeforeMonth(from.y, from.m) + from.d)

\* C19: in every summary seasonDays is the number of days from onsetDate to
\* meltOutDate when both are present and 0 when either is null, and it is
\* never negative
C19_SeasonDaysFromOnsetToMeltOut ==
    \A w \in SummariesReturned :
      /\ w.seasonDays >= 0
      /\ w.seasonDays = IF w.onsetDate # None /\ w.meltOutDate # None
                        THEN DaysBetween(Val(w.onsetDate), Val(w.meltOutDate))
                        ELSE 0

\* C19 happens: a season that begins in one calendar year and ends in the
\* next
C19_Witness ==
    \E w \in SummariesReturned :
      /\ w.onsetDate # None
      /\ w.meltOutDate # None
      /\ Val(w.onsetDate).y < Val(w.meltOutDate).y
      /\ w.seasonDays > 0

\* the slope fitted to the values of a metric in the years that carry it:
\* 0 unless they are more than MinTimingYears
TrendSlope(years, values) ==
    IF Len(years) > MinTimingYears
    THEN linearRegression(AsSeq([i \in 1..Len(years) |-> years[i].wy]), values).slope
    ELSE RInt(0)

OnsetDOWYs(years) == AsSeq([i \in 1..Len(years) |-> dateToDOWY(Val(years[i].onsetDate))])

MeltOutDOWYs(years) == AsSeq([i \in 1..Len(years) |-> dateToDOWY(Val(years[i].meltOutDate))])

SeasonLengths(years) == AsSeq([i \in 1..Len(years) |-> years[i].seasonDays])

OnsetTrend(years) == TrendSlope(years, OnsetDOWYs(years))

MeltOutTrend(years) == TrendSlope(years, MeltOutDOWYs(years))

SeasonTrend(years) == TrendSlope(years, SeasonLengths(years))

WithOnset(wys) == SelectSeq(wys, LAMBDA w : w.onsetDate # None)

WithMeltOut(wys) == SelectSeq(wys, LAMBDA w : w.meltOutDate # None)

\* the years with both an onset and a melt-out date
WithBothDates(wys) == SelectSeq(wys, LAMBDA w : w.onsetDate # None /\ w.meltOutDate # None)

\* the years whose melt-out date lies after their onset date
WithSeason(wys) ==
    SelectSeq(wys, LAMBDA w : /\ w.onsetDate # None /\ w.meltOutDate # None
                              /\ DateKey(Val(w.meltOutDate)) > DateKey(Val(w.onsetDate)))

SpanOf(wys) == IF Len(wys) > 1 THEN wys[Len(wys)].wy - wys[1].wy ELSE 1

\* the onset and melt-out trends of a record are fitted over the years that
\* carry the date, the season-length trend over the years seasonYears
TimingTrendsOver(out, seasonYears) ==
    /\ out.onsetTrendDays =
         RMul(OnsetTrend(WithOnset(out.waterYears)), RInt(10))
    /\ out.meltOutTrendDays =
         RMul(MeltOutTrend(WithMeltOut(out.waterYears)), RInt(10))
    /\ out.seasonLengthChange =
         RMul(SeasonTrend(seasonYears), RInt(SpanOf(out.waterYears)))

\* C20 as claimed: each timing trend is fitted over exactly the water years
\* in which its metric is defined, for the season length those with both an
\* onset and a melt-out date, and only when they are more than 5; otherwise
\* the slope is 0
C20_TrendsOverYearsWithBothDates ==
    \A r \in Returned : TimingTrendsOver(r.out, WithBothDates(r.out.waterYears))

\* C20 as the code has it: the season-length trend is fitted over the water
\* years whose season is longer than 0 days, those whose melt-out date lies
\* after their onset date
C20_TrendsOverYearsWithSeason ==
    \A r \in Returned : TimingTrendsOver(r.out, WithSeason(r.out.waterYears))

\* C20 happens: six years carry an onset date, a seventh does not, and the
\* onset and season-length trends are not 0
C20_Witness ==
    \E r \in Returned :
      /\ Len(WithOnset(r.out.waterYears)) = MinTimingYears + 1
      /\ Len(r.out.waterYears) = MinTimingYears + 2
      /\ r.out.onsetTrendDays # RInt(0)
      /\ r.out.seasonLengthChange # RInt(0)

\* the rank of a record is one plus the number of values of the pool below 0
RankedAsZero(out, pool) ==
    /\ out.currentRank = 1 + Cardinality({i \in 1..Len(pool) : pool[i] < 0})
    /\ (\A i \in 1..Len(pool) : pool[i] >= 0) => out.currentRank = 1

MissingRankedAsZero(por) ==
    \A r \in Returned : RankedAsZero(r.out, HistoricalAtDOWY(por, dateToDOWY(r.at.utc)))

\* C21: when station.swe is null the current value is ranked as 0:
\* currentRank is one plus the number of pooled values below 0, which is 1
\* when no pooled value is negative
C21_MissingCurrentRankedAsZero == station.swe = None => MissingRankedAsZero(PorData)

\* C21 happens: a station without a reading was ranked second in a pool of
\* three years, one of them below 0 and one at 0
C21_Witness ==
    /\ station.swe = None
    /\ \E r \in Returned :
         /\ r.out.totalYears = 3
         /\ r.out.currentRank = 2
         /\ r.out.waterYears[2].peakSWE = 0
         /\ r.out.waterYears[3].peakSWE = 2

\* the largest median of a hydrograph with a median
MaxMedian(hydro) ==
    CHOOSE m \in {Val(hydro[i].median) : i \in {j \in 1..Len(hydro) : hydro[j].median # None}} :
      \A i \in {j \in 1..Len(hydro) : hydro[j].median # None} : Val(hydro[i].median) <= m

\* the projection of the hydrograph: the latest value over the latest
\* median, times the largest median, or null at or past that maximum
ProportionalProjection(latest, maxMedian) ==
    IF maxMedian > Val(latest.median)
    THEN Some(Rat(Val(latest.swe) * maxMedian, Val(latest.median)))
    ELSE None

\* C22: with at least 6 observations, a latest value that is not missing
\* and a latest median above 0, projectedPeak is latest value / latest
\* median x the largest median when that is above the latest median, for
\* every latest value, and null otherwise
C22_ProjectionForEveryLatestValue ==
    \A r \in Returned :
      (/\ Len(currentWYHydro) >= 6
       /\ currentWYHydro[Len(currentWYHydro)].swe # None
       /\ currentWYHydro[Len(currentWYHydro)].median # None
       /\ Val(currentWYHydro[Len(currentWYHydro)].median) > 0)
      => r.out.projectedPeak =
           ProportionalProjection(currentWYHydro[Len(currentWYHydro)], MaxMedian(currentWYHydro))

\* C22 for a latest value other than 0
C22_ProjectionForLatestValueNotZero ==
    \A r \in Returned :
      (/\ Len(currentWYHydro) >= 6
       /\ currentWYHydro[Len(currentWYHydro)].swe \notin {None, Some(0)}
       /\ currentWYHydro[Len(currentWYHydro)].median # None
       /\ Val(currentWYHydro[Len(currentWYHydro)].median) > 0)
      => r.out.projectedPeak =
           ProportionalProjection(currentWYHydro[Len(currentWYHydro)], MaxMedian(currentWYHydro))

\* the valid rows of the series within 3 days of the day today of the
\* water year
RowsNear(por, today) ==
    {i \in 1..Len(por) : por[i].swe # None /\ Abs(dateToDOWY(por[i].date) - today) <= 3}

\* the water years of the rows of the set
YearsOfRows(por, rows) == {dateToWY(por[i].date) : i \in rows}

\* the pool has one value for every water year with a row near today, each
\* the value of a row near today, and the record counts those years
PoolOfYearsNear(por, out, pool, near) ==
    /\ Len(pool) = Cardinality(YearsOfRows(por, near))
    /\ \A k \in 1..Len(pool) : \E i \in near : Val(por[i].swe) = pool[k]
    /\ out.totalYears = Cardinality(YearsOfRows(por, near))
    /\ out.currentRank <= Cardinality(YearsOfRows(por, near)) + 1

PoolsOfYearsNear(por) ==
    \A r \in Returned :
      PoolOfYearsNear(por, r.out, HistoricalAtDOWY(por, dateToDOWY(r.at.utc)),
                      RowsNear(por, dateToDOWY(r.at.utc)))

\* C23: the pool behind currentRank and totalYears holds one value for
\* every water year with a valid observation within 3 days of today's DOWY,
\* taken from such an observation, and nothing for any other water year;
\* totalYears is the number of those water years
C23_PoolOfYearsNearToday == PoolsOfYearsNear(PorData)

\* C23 happens: of three water years, one has an observation exactly 3 days
\* from today's DOWY and is counted, one has null rows alone there and is
\* not
C23_Witness ==
    /\ Len(porRuns) = 3
    /\ porRuns[2].len = 10
    /\ porRuns[2].dowy \in {13, 28}
    /\ porRuns[3].swe = None
    /\ \E r \in Returned : r.at = Clocks[1] /\ r.out.totalYears = 2

\* the stations of the list that may be compared with the target: another
\* id, less than 1 degree away in latitude and in longitude (10 tenths), a
\* known percent of median
Eligible(target, sts) ==
    {i \in 1..Len(sts) :
       /\ sts[i].id # target.id
       /\ Abs(sts[i].lat - target.lat) < 10
       /\ Abs(sts[i].lon - target.lon) < 10
       /\ sts[i].pctMedian # None}

Manhattan(target, s) == Abs(s.lat - target.lat) + Abs(s.lon - target.lon)

\* nb lists the stations of sts at the positions at, one entry each
ListsStationsAt(nb, sts, at) ==
    /\ DOMAIN at = 1..Len(nb)
    /\ \A k \in 1..Len(nb) :
         nb[k] = [name |-> sts[at[k]].name, pctMedian |-> sts[at[k]].pctMedian]
    /\ \A k \in 1..Len(nb) : \A l \in 1..Len(nb) : at[k] = at[l] => k = l

\* at most 3 eligible stations, nearest first, none left out that is
\* strictly closer than one listed
NearestEligible(target, sts, at, eligible) ==
    /\ Len(at) <= 3
    /\ \A k \in 1..Len(at) : at[k] \in eligible
    /\ \A k \in 1..(Len(at) - 1) :
         Manhattan(target, sts[at[k]]) <= Manhattan(target, sts[at[k + 1]])
    /\ \A i \in eligible \ {at[k] : k \in 1..Len(at)} :
         \A k \in 1..Len(at) : Manhattan(target, sts[i]) >= Manhattan(target, sts[at[k]])

NearbyIsNearestEligible(nb, target, sts) ==
    \E at \in UNION { [1..n -> 1..Len(sts)] : n \in 0..3 } :
      /\ ListsStationsAt(nb, sts, at)
      /\ NearestEligible(target, sts, at, Eligible(target, sts))

HasSnow(por, rows) == \E i \in rows : Val(por[i].swe) > 1

\* the summary has both dates when its year has such an observation and
\* neither when it has none
BothDatesOrNeither(w, snow) ==
    /\ (w.onsetDate = None) <=> (w.meltOutDate = None)
    /\ snow => (w.onsetDate # None /\ w.meltOutDate # None)
    /\ ~snow => (w.onsetDate = None /\ w.meltOutDate = None)

OnsetAndMeltOutTogether(por) ==
    \A w \in SummariesReturned : BothDatesOrNeither(w, HasSnow(por, ValidRows(por, w.wy)))

RegionsDisjoint ==
    \A i \in 1..Len(REGIONS) : \A j \in 1..Len(REGIONS) :
      i # j => REGIONS[i].states \cap REGIONS[j].states = {}

\* the mapping iterated in the order p
Reordered(p) == AsSeq([i \in 1..Len(REGIONS) |-> REGIONS[p[i]]])

RegionOf(out) == [regionName |-> out.regionName, regionAvgPct |-> out.regionAvgPct]

SameForEveryOrder(region, st, sts) ==
    \A p \in Permutations(1..Len(REGIONS)) : RegionIn(Reordered(p), st, sts) = region

InNoRegion(st) == \A i \in 1..Len(REGIONS) : st.state \notin REGIONS[i].states

\* C28: no state code belongs to two regions, so regionName and
\* regionAvgPct are the same for every iteration order of the mapping, and a
\* station whose state is in no region gets the label "Region" and average 0
C28_RegionIndependentOfOrder ==
    /\ RegionsDisjoint
    /\ \A r \in Returned :
         /\ SameForEveryOrder(RegionOf(r.out), station, allStations)
         /\ InNoRegion(station) => RegionOf(r.out) = [regionName |-> "Region", regionAvgPct |-> 0]

\* C28 happens: a Nevada station among stations of four regions gets the
\* Sierra Nevada average of a California and a Nevada station
C28_Witness ==
    \E r \in Returned :
      /\ station.state = "NV"
      /\ \E i \in 1..Len(allStations) : allStations[i].state = "NM"
      /\ RegionOf(r.out) = [regionName |-> "Sierra Nevada", regionAvgPct |-> 90]

\* a station of no region gets the default label, with stations of other
\* regions in the list
C28_DefaultReached ==
    \E r \in Returned :
      /\ InNoRegion(station)
      /\ allStations # <<>>
      /\ RegionOf(r.out) = [regionName |-> "Region", regionAvgPct |-> 0]

(***************************************************************************)
(* The station loader of the App component (App.tsx 953-1021, 1341-1350).  *)
(* Each action is one event handler or one continuation of an async        *)
(* function, run to its next await, together with the render and the       *)
(* effects that follow its state updates.                                  *)
(***************************************************************************)
\* the stations the user can pick
Selectable == {StationA, StationB}

\* `${station.id}:${station.state}`
CacheKey(st) == <<st.id, st.state>>

\* what the server returns for the period of record of a station
PorOf(st) ==
    IF st.id = StationA.id THEN Expand(<<Run(2012, 20, 3, Some(2), 1)>>)
    ELSE Expand(<<Run(2012, 40, 2, Some(5), 1)>>)

\* what the server returns for the current hydrograph of a station
HydroOf(st) ==
    IF st.id = StationA.id THEN Hydro(MinHydro + 1, Some(3), Some(2))
    ELSE Hydro(MinHydro + 2, Some(1), Some(1))

\* snotelStations as the callbacks see it.  The dropdown calls the
\* selectStation of the render that loaded the stations; a map marker calls
\* the selectStation showSnotelMarkers captured at the first render (its
\* dependency list is empty), whose loadPORAnalytics saw no stations.
StationsSeenBy(via) == IF via = "marker" THEN <<>> ELSE LoadedStations

\* a loadPORAnalytics call that fetches whatever the cache holds
StartLoadByFetch(id, st, stations, cache) ==
    [id |-> id, station |-> st, stations |-> stations,
     phase |-> "fetch", fetched |-> TRUE, porData |-> <<>>]

\* loadPORAnalytics(station) up to its first await (App.tsx 983-1006): on a
\* cache hit it runs through to setTimeout with the cached series, otherwise
\* it issues the fetch.  fetched records whether the call issued a fetch.
StartLoad(id, st, stations, cache) ==
    IF CacheKey(st) \in DOMAIN cache
    THEN [id |-> id, station |-> st, stations |-> stations,
          phase |-> "timer", fetched |-> FALSE, porData |-> cache[CacheKey(st)]]
    ELSE [id |-> id, station |-> st, stations |-> stations,
          phase |-> "fetch", fetched |-> TRUE, porData |-> <<>>]

Init == UIInit /\ CAIdle /\ FnIdle /\ now = Clocks[1]

\* selectStation(station) up to the first await of the two loaders
selectStation(st, via) ==
    /\ nSelects < MaxSelects
    /\ nSelects' = nSelects + 1
    /\ selectedStation' = Some(st)
    /\ analytics' = None
    /\ hydroLoading' = TRUE
    /\ hydroLoads' = hydroLoads \cup {[id |-> nSelects + 1, station |-> st]}
    /\ analyticsLoading' = TRUE
    /\ porLoads' = porLoads \cup {StartLoad(nSelects + 1, st, StationsSeenBy(via), porCache)}
    /\ UNCHANGED <<hydroData, porCache, caVars, fnVars, now>>

\* the effect on [hydroData] after a render with the new hydrograph
RecomputeEffect(newHydro) ==
    IF /\ selectedStation # None
       /\ Len(newHydro) # 0
       /\ ~analyticsLoading
       /\ CacheKey(Val(selectedStation)) \in DOMAIN porCache
    THEN analytics' = Some(computeAnalytics(porCache[CacheKey(Val(selectedStation))],
                                            Val(selectedStation), LoadedStations,
                                            newHydro, now))
    ELSE UNCHANGED analytics

\* loadHydrograph after its fetch resolved
HydroFetchDone(l) ==
    /\ l \in hydroLoads
    /\ hydroLoads' = hydroLoads \ {l}
    /\ hydroData' = HydroOf(l.station)
    /\ hydroLoading' = FALSE
    /\ RecomputeEffect(HydroOf(l.station))
    /\ UNCHANGED <<selectedStation, analyticsLoading, porCache, porLoads, nSelects,
                   caVars, fnVars, now>>

\* loadHydrograph after its fetch failed: the catch branch
HydroFetchFail(l) ==
    /\ l \in hydroLoads
    /\ hydroLoads' = hydroLoads \ {l}
    /\ hydroData' = <<>>
    /\ hydroLoading' = FALSE
    /\ RecomputeEffect(<<>>)
    /\ UNCHANGED <<selectedStation, analyticsLoading, porCache, porLoads, nSelects,
                   caVars, fnVars, now>>

\* loadPORAnalytics after its fetch resolved: the cache is filled and the
\* timer is set
PorFetchDone(l) ==
    /\ l \in porLoads
    /\ l.phase = "fetch"
    /\ porCache' = [k \in DOMAIN porCache \cup {CacheKey(l.station)} |->
                      IF k = CacheKey(l.station) THEN PorOf(l.station) ELSE porCache[k]]
    /\ porLoads' = (porLoads \ {l})
                     \cup {[l EXCEPT !.phase = "timer", !.porData = PorOf(l.station)]}
    /\ UNCHANGED <<selectedStation, hydroData, hydroLoading, analytics, analyticsLoading,
                   hydroLoads, nSelects, caVars, fnVars, now>>

\* a catch branch that leaves the flag as it is
PorFetchFailKeepsFlag(l) ==
    /\ l \in porLoads
    /\ l.phase = "fetch"
    /\ porLoads' = porLoads \ {l}
    /\ UNCHANGED <<selectedStation, hydroData, hydroLoading, analytics, analyticsLoading,
                   porCache, hydroLoads, nSelects, caVars, fnVars, now>>

\* loadPORAnalytics after its fetch failed: the catch branch
PorFetchFail(l) ==
    /\ l \in porLoads
    /\ l.phase = "fetch"
    /\ porLoads' = porLoads \ {l}
    /\ analyticsLoading' = FALSE
    /\ UNCHANGED <<selectedStation, hydroData, hydroLoading, analytics, porCache,
                   hydroLoads, nSelects, caVars, fnVars, now>>

\* the setTimeout callback of loadPORAnalytics; the hydroData of its closure
\* is the empty array of the render that created the callback
TimerFire(l) ==
    /\ l \in porLoads
    /\ l.phase = "timer"
    /\ porLoads' = porLoads \ {l}
    /\ analytics' = Some(computeAnalytics(l.porData, l.station, l.stations, <<>>, now))
    /\ analyticsLoading' = FALSE
    /\ UNCHANGED <<selectedStation, hydroData, hydroLoading, porCache, hydroLoads,
                   nSelects, caVars, fnVars, now>>

\* handleTabChange; the [hydroData] effect that follows returns at once,
\* no station being selected
handleTabChange ==
    /\ selectedStation' = None
    /\ hydroData' = <<>>
    /\ analytics' = None
    /\ UNCHANGED <<hydroLoading, analyticsLoading, porCache, porLoads, hydroLoads,
                   nSelects, caVars, fnVars, now>>

\* handleLensChange
handleLensChange ==
    /\ selectedStation' = None
    /\ hydroData' = <<>>
    /\ analytics' = None
    /\ UNCHANGED <<hydroLoading, analyticsLoading, porCache, porLoads, hydroLoads,
                   nSelects, caVars, fnVars, now>>

Next ==
    \/ \E st \in Selectable, via \in {"dropdown", "marker"} : selectStation(st, via)
    \/ \E l \in hydroLoads : HydroFetchDone(l)
    \/ \E l \in hydroLoads : HydroFetchFail(l)
    \/ \E l \in porLoads : PorFetchDone(l)
    \/ \E l \in porLoads : PorFetchFail(l)
    \/ \E l \in porLoads : TimerFire(l)
    \/ handleTabChange
    \/ handleLensChange

Spec == Init /\ [][Next]_vars

\* a load leaves the set while it waits for its timer: of the steps of Next
\* only TimerFire does that
TimerEnds == \E l \in porLoads : l.phase = "timer" /\ porLoads' = porLoads \ {l}

\* the loader with its scheduling: a pending fetch settles, by resolving or
\* by rejecting, and a timer that was set fires
SpecFair ==
    /\ Spec
    /\ WF_vars(\E l \in porLoads : PorFetchDone(l) \/ PorFetchFail(l))
    /\ WF_porLoads(TimerEnds)

(***************************************************************************)
(* Properties of the loader (Spec).                                        *)
(***************************************************************************)
\* the analytics of station st from its own period of record, with either
\* station list and with its own hydrograph or none yet
OwnAnalytics(st) ==
    { computeAnalytics(PorOf(st), st, sts, h, now) :
        sts \in {<<>>, LoadedStations}, h \in {<<>>, HydroOf(st)} }

\* C1: the stored analytics are null or were computed for the selected
\* station from its own period of record and hydrograph; the result of a
\* load started for an earlier selection is never stored
C1_AnalyticsOfSelectedStation ==
    analytics # None =>
      /\ selectedStation # None
      /\ Val(analytics) \in OwnAnalytics(Val(selectedStation))

\* C2: for every cache key at most one period-of-record fetch is in flight
C2_OneFetchPerKey ==
    \A l1 \in porLoads : \A l2 \in porLoads :
      (/\ l1.phase = "fetch" /\ l2.phase = "fetch"
       /\ CacheKey(l1.station) = CacheKey(l2.station)) => l1 = l2

\* the loads of the one selection made have all finished, both fetches
\* with success: the hydrograph of the selected station is in hydroData and
\* analytics were stored
SettledAfterOneSelection ==
    /\ nSelects = 1
    /\ selectedStation # None
    /\ porLoads = {}
    /\ hydroLoads = {}
    /\ hydroData = HydroOf(Val(selectedStation))
    /\ analytics # None

\* the analytics of station st computed with its fetched hydrograph
AnalyticsWithHydro(st) ==
    { computeAnalytics(PorOf(st), st, sts, HydroOf(st), now) : sts \in {<<>>, LoadedStations} }

\* C25: once a station was selected and its period-of-record fetch, its
\* hydrograph fetch and the timer have all completed, in any order and with
\* no further selection, the stored analytics are the ones computed with the
\* station's fetched hydrograph.  Nothing but a new selection or a change of
\* tab changes the analytics after that point, so "eventually" is "by then".
C25_AnalyticsUseFetchedHydrograph ==
    SettledAfterOneSelection =>
      Val(analytics) \in AnalyticsWithHydro(Val(selectedStation))

\* C25 when the timer fired before the hydrograph arrived: the settled
\* analytics with a projection are the ones of the fetched hydrograph
C25_ProjectionIsOfFetchedHydrograph ==
    (SettledAfterOneSelection /\ Val(analytics).projectedPeak # None) =>
      Val(analytics) \in AnalyticsWithHydro(Val(selectedStation))

\* a loadPORAnalytics call begins in this step for a station whose series
\* is in the cache
CachedCallBegins ==
    /\ nSelects' = nSelects + 1
    /\ CacheKey(Val(selectedStation')) \in DOMAIN porCache

\* the timer of a call that issued no fetch fires in this step
CachedCallEnds(l) ==
    /\ l \in porLoads
    /\ l \notin porLoads'
    /\ ~l.fetched

\* C26: a loadPORAnalytics call for a station whose series is already in
\* the cache issues no period-of-record fetch, and the analytics it stores
\* are computed from the cached series
C26_CachedSeriesIsNotFetchedAgain ==
    [][/\ CachedCallBegins =>
            \A l \in porLoads' \ porLoads :
              /\ ~l.fetched
              /\ l.phase = "timer"
              /\ l.porData = porCache[CacheKey(l.station)]
       /\ \A l \in porLoads :
            CachedCallEnds(l) =>
              analytics' = Some(computeAnalytics(porCache[CacheKey(l.station)], l.station,
                                                 l.stations, <<>>, now))]_vars

\* C26 happens: the second call, for a station already in the cache, waits
\* for its timer without having fetched
C26_Witness ==
    \E l \in porLoads :
      /\ l.id = 2
      /\ ~l.fetched
      /\ l.phase = "timer"
      /\ CacheKey(l.station) \in DOMAIN porCache

\* the period-of-record loads, fetching or waiting for their timer, that the
\* latest selection started for the station still selected
CurrentLoads ==
    {l \in porLoads : l.id = nSelects /\ selectedStation = Some(l.station)}

C29_LoadingWhileOnlyLoad ==
    (CurrentLoads # {} /\ nSelects = 1) => analyticsLoading

\* no period-of-record load is fetching or waiting for its timer
NoLoadOutstanding == porLoads = {}

\* C30: once no load is outstanding analyticsLoading is false, whether the
\* loads ended by their timer or by the catch branch, and a flag that is
\* true is eventually false again: it is never left true forever
C30_LoadingEventuallyCleared ==
    /\ [](NoLoadOutstanding => ~analyticsLoading)
    /\ analyticsLoading ~> ~analyticsLoading

\* C30 happens: every load has ended and the flag is false, a fetch having
\* succeeded (its series is cached and its timer has fired) and the load of
\* the latest selection having failed (no analytics since that selection)
C30_Witness ==
    /\ NoLoadOutstanding
    /\ ~analyticsLoading
    /\ porCache # << >>
    /\ selectedStation # None
    /\ analytics = None

(***************************************************************************)
(* The date helpers on their own (SpecDates): dateToWY and both versions   *)
(* of dateToDOWY, called on every date of a few water years in each time   *)
(* zone of Zones.                                                          *)
(***************************************************************************)
\* the number of water years whose dates are enumerated
MaxDateYears == 2

DateWYs == 2012..(2011 + MaxDateYears)

DaysInWY(wy) == IF IsLeap(wy) THEN 366 ELSE 365

AllDates == UNION { { DateOfDOWY(wy, k) : k \in 1..DaysInWY(wy) } : wy \in DateWYs }

\* UTC; US Mountain time; Arizona, which keeps standard time; New South Wales
Zones == { UtcZone, Zone(-7, "north"), Zone(-7, "none"), Zone(10, "south") }

RegIdle ==
    /\ regXs = <<>>
    /\ regYs = <<>>
    /\ regOut = None
    /\ dashRegOut = None

InitDates ==
    /\ UIInit
    /\ CAIdle
    /\ now = Clocks[1]
    /\ tz \in Zones
    /\ dateStr \in AllDates
    /\ wyOut = None
    /\ dowyOut = None
    /\ dashDowyOut = None
    /\ RegIdle

CallDateToWY ==
    /\ wyOut = None
    /\ wyOut' = Some(dateToWY(dateStr))
    /\ UNCHANGED <<uiVars, caVars, now, tz, dateStr, dowyOut, dashDowyOut,
                   regXs, regYs, regOut, dashRegOut>>

CallDateToDOWY ==
    /\ dowyOut = None
    /\ dowyOut' = Some(dateToDOWYIn(tz, dateStr))
    /\ UNCHANGED <<uiVars, caVars, now, tz, dateStr, wyOut, dashDowyOut,
                   regXs, regYs, regOut, dashRegOut>>

CallDashboardDateToDOWY ==
    /\ dashDowyOut = None
    /\ dashDowyOut' = Some(dashboardDateToDOWY(tz, dateStr))
    /\ UNCHANGED <<uiVars, caVars, now, tz, dateStr, wyOut, dowyOut,
                   regXs, regYs, regOut, dashRegOut>>

NextDates ==
    \/ CallDateToWY
    \/ CallDateToDOWY
    \/ CallDashboardDateToDOWY

SpecDates == InitDates /\ [][NextDates]_vars

\* C11: dateToWY maps a date of January to September to its calendar year
\* and a date of October to December to the following year
C11_WaterYearOfDate ==
    wyOut # None =>
      Val(wyOut) = (IF dateStr.m \in 1..9 THEN dateStr.y ELSE dateStr.y + 1)

\* C11 happens: dateToWY was called on a 1 October
C11_Witness ==
    /\ wyOut # None
    /\ dateStr.m = 10
    /\ dateStr.d = 1
    /\ Val(wyOut) = dateStr.y + 1

\* the calendar days from the last 1 October on or before the date
DaysSinceOct1(date) ==
    DayNumber(date) - DayNumber(Date(IF date.m >= 10 THEN date.y ELSE date.y - 1, 10, 1))

CountsFromOct1(out) ==
    out # None => (Val(out) = DaysSinceOct1(dateStr) + 1 /\ Val(out) \in 1..366)

\* C12: both versions of dateToDOWY return 1 for 1 October and one more for
\* each following day up to 30 September, so a value in 1..366
C12_DowyCountsFromOct1 ==
    /\ CountsFromOct1(dowyOut)
    /\ CountsFromOct1(dashDowyOut)

\* C12, for the version of App.tsx in a zone without daylight saving
C12_DowyCountsFromOct1WithoutDst ==
    tz.dst = "none" => CountsFromOct1(dowyOut)

(***************************************************************************)
(* linearRegression on its own (SpecReg): both versions called on short    *)
(* series of whole numbers, arbitrary ones and ones that lie on a line.    *)
(***************************************************************************)
\* the longest series
MaxPoints == 3

\* the largest value of an arbitrary series
MaxRegValue == 1

SeriesOver(n, values) == { AsSeq(f) : f \in [1..n -> values] }

\* arbitrary xs and ys of the same length, the empty and one-point series
\* among them
AnyPoints ==
    UNION { SeriesOver(n, 0..MaxRegValue) \X SeriesOver(n, 0..MaxRegValue) : n \in 0..MaxPoints }

LineSlopes == -2..2

LineIntercepts == {-1, 0, 3}

OnLine(x, a, b) == AsSeq([i \in 1..Len(x) |-> a * x[i] + b])

\* ys = a * xs + b, xs of at least two points, all equal or not
LinePoints ==
    { <<x, OnLine(x, a, b)>> :
        x \in UNION { SeriesOver(n, 1..(MaxRegValue + 2)) : n \in 2..MaxPoints },
        a \in LineSlopes, b \in LineIntercepts }

InitReg ==
    /\ UIInit
    /\ CAIdle
    /\ now = Clocks[1]
    /\ tz = UtcZone
    /\ dateStr = Date(2011, 10, 1)
    /\ wyOut = None
    /\ dowyOut = None
    /\ dashDowyOut = None
    /\ \E p \in AnyPoints \cup LinePoints :
         /\ regXs = p[1]
         /\ regYs = p[2]
    /\ regOut = None
    /\ dashRegOut = None

CallLinearRegression ==
    /\ regOut = None
    /\ regOut' = Some(linearRegression(regXs, regYs))
    /\ UNCHANGED <<uiVars, caVars, now, tz, dateStr, wyOut, dowyOut, dashDowyOut,
                   regXs, regYs, dashRegOut>>

CallDashboardLinearRegression ==
    /\ dashRegOut = None
    /\ dashRegOut' = Some(dashboardLinearRegression(regXs, regYs))
    /\ UNCHANGED <<uiVars, caVars, now, tz, dateStr, wyOut, dowyOut, dashDowyOut,
                   regXs, regYs, regOut>>

NextReg ==
    \/ CallLinearRegression
    \/ CallDashboardLinearRegression

SpecReg == InitReg /\ [][NextReg]_vars

Fit(slope, intercept, r2) ==
    [slope |-> RInt(slope), intercept |-> RInt(intercept), r2 |-> RInt(r2)]

\* C13: with fewer than two points both versions of linearRegression return
\* slope 0, intercept 0 and r2 0
C13_FewerThanTwoPointsGiveZeros ==
    Len(regXs) < 2 =>
      /\ regOut # None => Val(regOut) = Fit(0, 0, 0)
      /\ dashRegOut # None => Val(dashRegOut) = Fit(0, 0, 0)

\* C13 happens: both versions were called on one point with a value other
\* than 0
C13_Witness ==
    /\ Len(regXs) = 1
    /\ regYs[1] # 0
    /\ regOut = Some(Fit(0, 0, 0))
    /\ dashRegOut = Some(Fit(0, 0, 0))

=============================================================================
